---- MODULE Spec2Model ----
(***************************************************************************)
(* Model of the avr-uart buffered transport (src/src/uart.c) on an         *)
(* ATmega328P port (src/unnamed/part_002).                                 *)
(*                                                                         *)
(* One cooperative context (the application) executes the API functions    *)
(* one C statement at a time; `pc` is its position.  The two interrupt     *)
(* service routines are ISR_BLOCK: each runs to completion as one atomic   *)
(* step, between any two statements of the cooperative context, whenever   *)
(* its enable bit is set in UCSR0B.  The enable and disable macros are     *)
(* `UCSR0B |= bit` and `UCSR0B &= ~bit` on a register outside the          *)
(* bit-addressable I/O range, so each is a separate read and write.        *)
(*                                                                         *)
(* The pattern matcher (src/unnamed/part_001) keeps a table of registered  *)
(* sequences; the receive ISR feeds every byte to uart_do_match before it  *)
(* stores the byte, and the application registers, deregisters and sweeps  *)
(* (uart_check_match) from the cooperative context.  With no pattern       *)
(* registered uart_do_match returns at once.                               *)
(*                                                                         *)
(* uart_setup stores the control register in one write (receive interrupt  *)
(* enabled, data-register-empty interrupt disabled) and then flushes both  *)
(* directions; uart_flush_rx resets the RX indices and count with the      *)
(* receive interrupt left enabled.                                         *)
(***************************************************************************)
EXTENDS Integers, Sequences, FiniteSets, TLC

(* ------------------------------ bounds -------------------------------- *)
\* Buffer capacities (UART_TX_BUFFER_LEN / UART_RX_BUFFER_LEN are
\* overridable macros, default 64); scaled down for checking.
UART_TX_BUFFER_LEN == 2
UART_RX_BUFFER_LEN == 2
\* Data bytes are 0..MaxByte (0 is the "empty" sentinel of the try/peek reads).
MaxByte == 1
\* Total number of bytes the application enqueues for transmission.
MaxSend == 4
\* Total number of receive-complete events.
MaxArrive == 4
\* Longest buffer handed to uart_send.
MaxSendLen == 2
\* Pattern table size and pattern length (UART_MATCH_MAX / UART_MAX_SEQ_LEN
\* are overridable macros, default 8); scaled down for checking.
UART_MATCH_MAX == 3
UART_MAX_SEQ_LEN == 3
\* Pattern characters are 1..MaxChar and HighChar, a byte above 127; the
\* bytes received while patterns are registered are these and 0.
MaxChar == 2
HighChar == 200
\* Callbacks are 1..MaxHandler (0 is the NULL handler), user data 0..MaxData.
MaxHandler == 1
MaxData == 2
\* Total number of uart_register_match / uart_deregister_match calls.
MaxRegs == 4
\* With several patterns: registration calls plus receive events.
MaxEvents == 5
\* Length of the text a pattern's callback sends (uart_match_cb sends the
\* seven characters "Match N").
MaxReply == 1
\* With both directions at once: bytes enqueued plus receive events.
MaxIo == 3
\* Formatted senders: bytes enqueued in all, bytes enqueued before the last
\* call, largest number handed to uart_send_uint / uart_send_int, largest
\* float in quarters, largest precision asked of uart_send_float.
MaxFmtSend == 8
MaxFmtBefore == 1
MaxUint == 12
MaxQuarter == 5
MaxPrec == 5

(* -------------------------- program constants ------------------------- *)
\* RX_COUNT_SIZE_TYPE / TX_COUNT_SIZE_TYPE are uint8_t for lengths < 256,
\* and the four indices are unsigned char: all arithmetic is modulo 2^8.
Uint8Mod == 256

\* uint16_t, the type of tx_count for a capacity of 256 and more; int and
\* unsigned int are 16 bits wide as well.
Uint16Mod == 65536

\* `count` and `len` of struct _match are 4-bit bit-fields.
BitfieldMod == 16
\* triggered_mask and the masks shifted along it are uint16_t.
MaskBits == 16
\* `return -1;` from a function returning uint8_t.
FAIL == 255
\* The largest value of a (signed) char.
SCHAR_MAX == 127

Byte == 0..MaxByte
Char == (1..MaxChar) \cup {HighChar}
NoHit == 0 - 1
RXCIE0 == "RXCIE0"
UDRIE0 == "UDRIE0"

VARIABLES
  rx_count, tx_count,      \* struct _uart: volatile counters
  rx_in, rx_out,           \* struct _uart: RX head (ISR) and tail (application)
  tx_in, tx_out,           \* struct _uart: TX head (application) and tail (ISR)
  rx_buffer, tx_buffer,    \* struct _uart: storage, index 0..LEN-1
  UCSR0B,                  \* the interrupt enable bits of the control register
  pc,                      \* position of the cooperative context
  call,                    \* the API function the application called
  loc,                     \* locals of the running function(s)
  ret,                     \* return value of the last API function
  pre,                     \* snapshot taken when the API function was called
  enq,                     \* history: bytes stored into tx_buffer, in order
  wire,                    \* history: bytes written to PORT_UDR, in order
  arrived,                 \* history: bytes read from PORT_UDR by the RX ISR
  got,                     \* history: bytes returned by the receive functions
  novf,                    \* history: receive events that found rx_count >= LEN
  nret,                    \* history: send calls that returned success
  peeked,                  \* history: what the last uart_peek copied, until
                           \*          the application makes another call
  match_idx_max,           \* struct _uart_match: number of registered patterns
  match,                   \* struct _uart_match: the pattern table
  triggered_mask,          \* struct _uart_match: bit i set = entry i completed
  mloc,                    \* locals of the running pattern-match function
  mpre,                    \* snapshot taken when that function was called
  hits,                    \* history: per received byte, the bit it set
  invoked,                 \* history: callbacks run by uart_check_match
  nregs,                   \* history: number of register/deregister calls
  gone                     \* history: the pattern last deregistered

vars == <<rx_count, tx_count, rx_in, rx_out, tx_in, tx_out, rx_buffer,
          tx_buffer, UCSR0B, pc, call, loc, ret, pre, enq, wire, arrived,
          got, novf, nret, peeked, match_idx_max, match, triggered_mask,
          mloc, mpre, hits, invoked, nregs, gone>>

txvars == <<tx_count, tx_in, tx_out, tx_buffer>>
rxvars == <<rx_count, rx_in, rx_out, rx_buffer>>
txhist == <<enq, wire, nret>>
rxhist == <<arrived, got, novf, peeked>>
matchvars == <<match_idx_max, match, triggered_mask>>
matchhist == <<hits, invoked, nregs, gone>>
\* Everything the transport functions leave alone.
mvars == <<matchvars, mloc, mpre, matchhist>>

(* ------------------------------ helpers ------------------------------- *)
\* ++x on an 8-bit unsigned object.
Inc8(x) == (x + 1) % Uint8Mod
\* --x on an 8-bit unsigned object.
Dec8(x) == (x + Uint8Mod - 1) % Uint8Mod

\* Faulty variant: the index is not reset at the end of the storage.
AdvanceIndex_NoWrap(idx, buflen) == Inc8(idx)

\* `if (++idx == LEN) idx = 0;`
AdvanceIndex(idx, buflen) == IF Inc8(idx) = buflen THEN 0 ELSE Inc8(idx)

\* Sequences over S of length lo..hi.
SeqsOf(S, lo, hi) == UNION {[1..k -> S] : k \in lo..hi}

LocInit == [c |-> 0, len |-> 0, n |-> 0, str |-> <<>>, s |-> <<>>,
            reg |-> {}, out |-> 0, ld |-> FALSE]

PreNone == [tx_count |-> 0, tx_in |-> 0, tx_out |-> 0, tx_buffer |-> <<>>,
            rx_count |-> 0, rx_in |-> 0, rx_out |-> 0, rx_buffer |-> <<>>,
            UCSR0B |-> {}, nenq |-> 0, nwire |-> 0, narr |-> 0, ngot |-> 0,
            novf |-> 0, len |-> 0, c |-> 0]

\* One zero-initialised struct _match.
EntryZero == [count |-> 0, len |-> 0,
              seq |-> [k \in 0..(UART_MAX_SEQ_LEN - 1) |-> 0],
              event_handler |-> 0, data |-> 0]

\* mloc.bits is the register that holds the byte with the bit-fields
\* `count : 4` and `len : 4` between its load and its store.
MLocInit == [i |-> 0, found |-> 0, idx |-> 0, str |-> <<>>, mask |-> {},
             reg |-> {}, term |-> 0, bits |-> [count |-> 0, len |-> 0],
             k |-> 0]

MPreNone == [match_idx_max |-> 0, match |-> <<>>, triggered_mask |-> {},
             narr |-> 0, ninv |-> 0, str |-> <<>>, null |-> FALSE,
             handler |-> 0, data |-> 0]

\* The pattern table the application sees when it calls a match function.
MSnapshot(str, handler, data) ==
  [match_idx_max |-> match_idx_max, match |-> match,
   triggered_mask |-> triggered_mask, narr |-> Len(arrived),
   ninv |-> Len(invoked), str |-> str, null |-> FALSE,
   handler |-> handler, data |-> data]

GoneNone == [valid |-> FALSE, str |-> <<>>, event_handler |-> 0, data |-> 0,
             ninv |-> 0]

PeekNone == [valid |-> FALSE, str |-> <<>>, ngot |-> 0, novf |-> 0]

\* The state the application sees when it calls an API function.
Snapshot(len, c) ==
  [tx_count |-> tx_count, tx_in |-> tx_in, tx_out |-> tx_out,
   tx_buffer |-> tx_buffer, rx_count |-> rx_count, rx_in |-> rx_in,
   rx_out |-> rx_out, rx_buffer |-> rx_buffer, UCSR0B |-> UCSR0B,
   nenq |-> Len(enq), nwire |-> Len(wire), narr |-> Len(arrived),
   ngot |-> Len(got), novf |-> novf, len |-> len, c |-> c]

(* ------------------------------- Init --------------------------------- *)
\* Static storage is zero-initialised; uart_setup() has run (port_uart_setup
\* sets RXCIE0 and leaves UDRIE0 clear) and the application has executed sei().
Init ==
  /\ rx_count = 0 /\ tx_count = 0
  /\ rx_in = 0 /\ rx_out = 0 /\ tx_in = 0 /\ tx_out = 0
  /\ rx_buffer = [i \in 0..(UART_RX_BUFFER_LEN - 1) |-> 0]
  /\ tx_buffer = [i \in 0..(UART_TX_BUFFER_LEN - 1) |-> 0]
  /\ UCSR0B = {RXCIE0}
  /\ pc = "idle" /\ call = "none" /\ loc = LocInit /\ ret = 0
  /\ pre = PreNone
  /\ enq = <<>> /\ wire = <<>> /\ arrived = <<>> /\ got = <<>>
  /\ novf = 0 /\ nret = 0 /\ peeked = PeekNone
  /\ match_idx_max = 0
  /\ match = [i \in 0..(UART_MATCH_MAX - 1) |-> EntryZero]
  /\ triggered_mask = {}
  /\ mloc = MLocInit /\ mpre = MPreNone
  /\ hits = <<>> /\ invoked = <<>> /\ nregs = 0 /\ gone = GoneNone

(* ------------------ port_*_interrupt read and write ------------------- *)
\* First half of `UCSR0B |= bit` / `UCSR0B &= ~bit`: load the register.
RegRead(from, to) ==
  /\ pc = from /\ pc' = to
  /\ loc' = [loc EXCEPT !.reg = UCSR0B]
  /\ UNCHANGED <<mvars, txvars, rxvars, UCSR0B, call, ret, pre, txhist, rxhist>>

\* Faulty variant of the disable macro: the bit is not cleared in the stored
\* value.
RegWriteClear_Dropped(from, to, bit) ==
  /\ pc = from /\ pc' = to
  /\ UCSR0B' = loc.reg
  /\ UNCHANGED <<mvars, txvars, rxvars, call, loc, ret, pre, txhist, rxhist>>

\* Second half of `UCSR0B &= ~bit`: store the loaded value with the bit clear.
RegWriteClear(from, to, bit) ==
  /\ pc = from /\ pc' = to
  /\ UCSR0B' = loc.reg \ {bit}
  /\ UNCHANGED <<mvars, txvars, rxvars, call, loc, ret, pre, txhist, rxhist>>

\* Faulty variant of the enable macro: the bit is not set in the stored value.
RegWriteSet_Dropped(from, to, bit) ==
  /\ pc = from /\ pc' = to
  /\ UCSR0B' = loc.reg
  /\ UNCHANGED <<mvars, txvars, rxvars, call, loc, ret, pre, txhist, rxhist>>

\* Second half of `UCSR0B |= bit`: store the loaded value with the bit set.
RegWriteSet(from, to, bit) ==
  /\ pc = from /\ pc' = to
  /\ UCSR0B' = loc.reg \cup {bit}
  /\ UNCHANGED <<mvars, txvars, rxvars, call, loc, ret, pre, txhist, rxhist>>

(* --------------------------- transmit side ---------------------------- *)
\* Faulty variant of the TX ISR: tx_out is not advanced after the write.
ISR_UDRE_NoAdvance ==
  /\ UDRIE0 \in UCSR0B
  /\ IF tx_count > 0
       THEN /\ wire' = Append(wire, tx_buffer[tx_out])
            /\ tx_count' = Dec8(tx_count)
            /\ UCSR0B' = IF Dec8(tx_count) = 0 THEN UCSR0B \ {UDRIE0}
                                                ELSE UCSR0B
            /\ UNCHANGED tx_out
       ELSE UNCHANGED <<wire, tx_out, tx_count, UCSR0B>>
  /\ UNCHANGED <<mvars, tx_in, tx_buffer, rxvars, pc, call, loc, ret, pre, enq,
                 nret, rxhist>>

\* ISR(port_udre_vect, ISR_BLOCK)
ISR_UDRE ==
  /\ UDRIE0 \in UCSR0B
  /\ IF tx_count > 0
       THEN /\ wire' = Append(wire, tx_buffer[tx_out])
            /\ tx_out' = AdvanceIndex(tx_out, UART_TX_BUFFER_LEN)
            /\ tx_count' = Dec8(tx_count)
            /\ UCSR0B' = IF Dec8(tx_count) = 0 THEN UCSR0B \ {UDRIE0}
                                                ELSE UCSR0B
       ELSE UNCHANGED <<wire, tx_out, tx_count, UCSR0B>>
  /\ UNCHANGED <<mvars, tx_in, tx_buffer, rxvars, pc, call, loc, ret, pre, enq,
                 nret, rxhist>>

\* `++uart.tx_count;`
TxIncCount(from, to) ==
  /\ pc = from /\ pc' = to
  /\ tx_count' = Inc8(tx_count)
  /\ UNCHANGED <<mvars, tx_in, tx_out, tx_buffer, rxvars, UCSR0B, call, loc, ret,
                 pre, txhist, rxhist>>

\* `uart.tx_buffer[uart.tx_in] = c;`
TxStore(from, to) ==
  /\ pc = from /\ pc' = to
  /\ tx_buffer' = [tx_buffer EXCEPT ![tx_in] = loc.c]
  /\ enq' = Append(enq, loc.c)
  /\ UNCHANGED <<mvars, tx_count, tx_in, tx_out, rxvars, UCSR0B, call, loc, ret,
                 pre, wire, nret, rxhist>>

\* `if (++uart.tx_in == UART_TX_BUFFER_LEN) uart.tx_in = 0;`
TxAdvanceIn(from, to) ==
  /\ pc = from /\ pc' = to
  /\ tx_in' = AdvanceIndex(tx_in, UART_TX_BUFFER_LEN)
  /\ UNCHANGED <<mvars, tx_count, tx_out, tx_buffer, rxvars, UCSR0B, call, loc,
                 ret, pre, txhist, rxhist>>

\* The application calls uart_send_byte(c).
Call_uart_send_byte ==
  /\ pc = "idle" /\ Len(enq) < MaxSend
  /\ \E c \in Byte :
       /\ loc' = [LocInit EXCEPT !.c = c]
       /\ pre' = Snapshot(1, c)
  /\ pc' = "sb_wait" /\ call' = "uart_send_byte" /\ ret' = 0
  /\ UNCHANGED <<mvars, txvars, rxvars, UCSR0B, txhist, rxhist>>

\* `while (uart.tx_count == UART_TX_BUFFER_LEN);`
SendByteWait ==
  /\ pc = "sb_wait" /\ tx_count # UART_TX_BUFFER_LEN
  /\ pc' = "sb_dis_rd"
  /\ UNCHANGED <<mvars, txvars, rxvars, UCSR0B, call, loc, ret, pre, txhist, rxhist>>

\* The functions that send what they format byte by byte.
FormattedCalls == {"uart_pgm_send", "uart_send_uint", "uart_send_int",
                   "uart_send_float", "uart_newline", "uart_clear",
                   "uart_sendln"}

\* uart_send_byte returns, to the loop of the function that called it or to
\* the application; uart_send runs for the application or for the callback
\* that uart_check_match has called.
SendByteReturn ==
  /\ pc = "sb_ret"
  /\ pc' = IF call \in {"uart_send", "uart_check_match"} THEN "us_loop"
           ELSE IF call \in FormattedCalls THEN "fs_loop" ELSE "done"
  /\ nret' = nret + 1
  /\ UNCHANGED <<mvars, txvars, rxvars, UCSR0B, call, loc, ret, pre, enq, wire,
                 rxhist>>

\* void uart_send_byte(char c)
uart_send_byte ==
  \/ SendByteWait
  \/ RegRead("sb_dis_rd", "sb_dis_wr")
  \/ RegWriteClear("sb_dis_wr", "sb_inc", UDRIE0)
  \/ TxIncCount("sb_inc", "sb_store")
  \/ TxStore("sb_store", "sb_adv")
  \/ TxAdvanceIn("sb_adv", "sb_en_rd")
  \/ RegRead("sb_en_rd", "sb_en_wr")
  \/ RegWriteSet("sb_en_wr", "sb_ret", UDRIE0)
  \/ SendByteReturn

\* Faulty variant: the capacity test is `<=` instead of `<`.
Call_uart_try_send_byte_OffByOne ==
  /\ pc = "idle" /\ Len(enq) < MaxSend
  /\ \E c \in Byte :
       /\ loc' = [LocInit EXCEPT !.c = c]
       /\ pre' = Snapshot(1, c)
  /\ call' = "uart_try_send_byte"
  /\ ret' = 0
  /\ pc' = IF tx_count <= UART_TX_BUFFER_LEN THEN "tsb_dis_rd" ELSE "done"
  /\ UNCHANGED <<mvars, txvars, rxvars, UCSR0B, txhist, rxhist>>

\* The application calls uart_try_send_byte(c); the left operand of `&&`,
\* `uart.tx_count < UART_TX_BUFFER_LEN`, is evaluated on entry.
Call_uart_try_send_byte ==
  /\ pc = "idle" /\ Len(enq) < MaxSend
  /\ \E c \in Byte :
       /\ loc' = [LocInit EXCEPT !.c = c]
       /\ pre' = Snapshot(1, c)
  /\ call' = "uart_try_send_byte"
  /\ ret' = 0
  /\ pc' = IF tx_count < UART_TX_BUFFER_LEN THEN "tsb_dis_rd" ELSE "done"
  /\ UNCHANGED <<mvars, txvars, rxvars, UCSR0B, txhist, rxhist>>

\* The value of the statement expression is the value of its last
\* expression, `UCSR0B |= (1<<UDRIE0)`: the value that was stored (the
\* register is not read again), which always holds UDRIE0; `&&` turns it
\* into 0 or 1.
TrySendByteReturn ==
  /\ pc = "tsb_ret" /\ pc' = "done"
  /\ ret' = IF (loc.reg \cup {UDRIE0}) # {} THEN 1 ELSE 0
  /\ nret' = nret + 1
  /\ UNCHANGED <<mvars, txvars, rxvars, UCSR0B, call, loc, pre, enq, wire, rxhist>>

\* char uart_try_send_byte(char c)
uart_try_send_byte ==
  \/ RegRead("tsb_dis_rd", "tsb_dis_wr")
  \/ RegWriteClear("tsb_dis_wr", "tsb_inc", UDRIE0)
  \/ TxIncCount("tsb_inc", "tsb_store")
  \/ TxStore("tsb_store", "tsb_adv")
  \/ TxAdvanceIn("tsb_adv", "tsb_en_rd")
  \/ RegRead("tsb_en_rd", "tsb_en_wr")
  \/ RegWriteSet("tsb_en_wr", "tsb_ret", UDRIE0)
  \/ TrySendByteReturn

\* The application calls uart_send(s, len) with len = Len(s).
Call_uart_send ==
  /\ pc = "idle"
  /\ \E s \in SeqsOf(Byte, 0, MaxSendLen) :
       /\ Len(enq) + Len(s) <= MaxSend
       /\ loc' = [LocInit EXCEPT !.s = s, !.len = Len(s)]
       /\ pre' = Snapshot(Len(s), 0)
  /\ pc' = "us_loop" /\ call' = "uart_send" /\ ret' = 0
  /\ UNCHANGED <<mvars, txvars, rxvars, UCSR0B, txhist, rxhist>>

\* void uart_send(const char *s, size_t len):
\* `while (len--) uart_send_byte(*s++);`, then the return to the
\* application, or through uart_match_cb to the sweep of uart_check_match.
uart_send ==
  /\ pc = "us_loop"
  /\ IF loc.len = 0
       THEN IF call = "uart_check_match"
              THEN pc' = "cm_rd" /\ loc' = LocInit
              ELSE pc' = "done" /\ UNCHANGED loc
       ELSE /\ pc' = "sb_wait"
            /\ loc' = [loc EXCEPT !.c = Head(loc.s), !.s = Tail(loc.s),
                                  !.len = loc.len - 1]
  /\ UNCHANGED <<mvars, txvars, rxvars, UCSR0B, call, ret, pre, txhist, rxhist>>

(* ------------------------- formatted senders ------------------------- *)
\* `#define ascii(c) (48 + c)`
ascii(c) == 48 + c

\* "\x0d\x0a" and "\x1b\x5b\x48\x1b\x5b\x32\x4a"
c_NEWLINE_STRING == <<13, 10>>
c_CLEARSCREEN_STRING == <<27, 91, 72, 27, 91, 50, 74>>

\* `while (u > 0) { digits[idx++] = u % 10; u /= 10; }`: the digits of u,
\* least significant first.
RECURSIVE DigitsOf(_)
DigitsOf(u) == IF u = 0 THEN <<>> ELSE <<u % 10>> \o DigitsOf(u \div 10)

\* The bytes uart_send_uint(u) hands to uart_send_byte, in order:
\* `digits[idx++] = 0` for zero, then `ascii(digits[--idx])` from the last
\* digit stored down to the first.
UintBytes(u) ==
  LET digits == IF u = 0 THEN <<0>> ELSE DigitsOf(u)
      idx == Len(digits)
  IN [k \in 1..idx |-> ascii(digits[idx + 1 - k])]

\* The bytes uart_send_int(n) sends: '-' and `n = -n` for a negative n, then
\* uart_send_uint(n) with n converted to unsigned int.
IntBytes(n) ==
  IF n < 0 THEN <<45>> \o UintBytes((0 - n) % Uint16Mod)
           ELSE UintBytes(n % Uint16Mod)

\* (int) of the number a / b, b > 0: the fraction is discarded.
ToInt(a, b) == IF a >= 0 THEN a \div b ELSE 0 - ((0 - a) \div b)

\* The bytes uart_send_float(f, m) sends for f = q / 4 (quarters are exact
\* in a float, and so is every product below): `if (m > 4) m = 4;`,
\* uart_send_int(f), '.', `f = f - (int)f`, m times `f = f * 10`,
\* uart_send_int(f).
FloatBytes(q, m) ==
  LET mm == IF m > 4 THEN 4 ELSE m
      whole == ToInt(q, 4)
      frac == q - 4 * whole
  IN IntBytes(whole) \o <<46>> \o IntBytes(ToInt(frac * 10^mm, 4))

\* A formatted sender is called and is about to send `bytes`.
CallFormatted(f, bytes) ==
  /\ pc = "idle"
  /\ Len(enq) <= MaxFmtBefore
  /\ Len(enq) + Len(bytes) <= MaxFmtSend
  /\ loc' = [LocInit EXCEPT !.s = bytes, !.len = Len(bytes)]
  /\ pre' = Snapshot(Len(bytes), 0)
  /\ pc' = "fs_loop" /\ call' = f /\ ret' = 0
  /\ UNCHANGED <<mvars, txvars, rxvars, UCSR0B, txhist, rxhist>>

\* The application calls uart_pgm_send(s) with a NUL-terminated string in
\* program memory; the loop ends at the NUL.
Call_uart_pgm_send ==
  \E s \in SeqsOf(Byte \ {0}, 0, MaxSendLen) : CallFormatted("uart_pgm_send", s)

\* The application calls uart_send_uint(u).
Call_uart_send_uint ==
  \E u \in 0..MaxUint : CallFormatted("uart_send_uint", UintBytes(u))

\* The application calls uart_send_int(n).
Call_uart_send_int ==
  \E n \in (0 - MaxUint)..MaxUint : CallFormatted("uart_send_int", IntBytes(n))

\* The application calls uart_send_float(f, m) with f = q / 4.
Call_uart_send_float ==
  \E q \in (0 - MaxQuarter)..MaxQuarter, m \in 0..MaxPrec :
    CallFormatted("uart_send_float", FloatBytes(q, m))

\* void uart_send_double(double d, uint8_t m): the body is empty.
uart_send_double ==
  /\ pc = "idle"
  /\ pc' = "done" /\ call' = "uart_send_double" /\ ret' = 0
  /\ loc' = LocInit /\ pre' = Snapshot(0, 0)
  /\ UNCHANGED <<mvars, txvars, rxvars, UCSR0B, txhist, rxhist>>

\* The application calls uart_newline(): `uart_send(c_NEWLINE_STRING, 2);`
Call_uart_newline == CallFormatted("uart_newline", SubSeq(c_NEWLINE_STRING, 1, 2))

\* The application calls uart_clear(): `uart_send(c_CLEARSCREEN_STRING, 7);`
Call_uart_clear ==
  CallFormatted("uart_clear", SubSeq(c_CLEARSCREEN_STRING, 1, 7))

\* The application uses uart_sendln(str, len):
\* `uart_send((str), (len)), uart_newline()`.
Call_uart_sendln ==
  \E s \in SeqsOf(Byte, 0, MaxSendLen) :
    CallFormatted("uart_sendln", s \o c_NEWLINE_STRING)

\* The loops of the formatted senders: one uart_send_byte call for each
\* byte, in order, then the function returns.
FormattedSendLoop ==
  /\ pc = "fs_loop"
  /\ IF loc.len = 0
       THEN /\ pc' = "done"
            /\ UNCHANGED loc
       ELSE /\ pc' = "sb_wait"
            /\ loc' = [loc EXCEPT !.c = Head(loc.s), !.s = Tail(loc.s),
                                  !.len = loc.len - 1]
  /\ UNCHANGED <<mvars, txvars, rxvars, UCSR0B, call, ret, pre, txhist, rxhist>>

\* The application calls uart_flush_tx().
Call_uart_flush_tx ==
  /\ pc = "idle"
  /\ pc' = "ft_wait" /\ call' = "uart_flush_tx" /\ ret' = 0
  /\ loc' = LocInit /\ pre' = Snapshot(0, 0)
  /\ UNCHANGED <<mvars, txvars, rxvars, UCSR0B, txhist, rxhist>>

\* Faulty variant: the wait loop is missing.
FlushTxWait_NoWait ==
  /\ pc = "ft_wait"
  /\ pc' = "ft_idx"
  /\ UNCHANGED <<mvars, txvars, rxvars, UCSR0B, call, loc, ret, pre, txhist, rxhist>>

\* `while(uart.tx_count > 0);`
FlushTxWait ==
  /\ pc = "ft_wait" /\ ~(tx_count > 0)
  /\ pc' = "ft_idx"
  /\ UNCHANGED <<mvars, txvars, rxvars, UCSR0B, call, loc, ret, pre, txhist, rxhist>>

\* `uart.tx_in = uart.tx_out = 0;`
FlushTxIndices ==
  /\ pc = "ft_idx" /\ pc' = "ft_cnt"
  /\ tx_in' = 0 /\ tx_out' = 0
  /\ UNCHANGED <<mvars, tx_count, tx_buffer, rxvars, UCSR0B, call, loc, ret, pre,
                 txhist, rxhist>>

\* `uart.tx_count = 0;`
FlushTxCount ==
  /\ pc = "ft_cnt" /\ pc' = "done"
  /\ tx_count' = 0
  /\ UNCHANGED <<mvars, tx_in, tx_out, tx_buffer, rxvars, UCSR0B, call, loc, ret,
                 pre, txhist, rxhist>>

\* void uart_flush_tx()
uart_flush_tx ==
  \/ FlushTxWait
  \/ FlushTxIndices
  \/ FlushTxCount

(* --------------------------- pattern matcher -------------------------- *)
\* `1 << i` as a uint16_t, written as the set of bit positions it has set.
Bit(i) == IF i < MaskBits THEN {i} ELSE {}

\* `p_match->seq[k]`; a position at or beyond UART_MAX_SEQ_LEN reads the
\* memory behind the array, whose content `oob` the caller leaves open.
SeqAt(e, k, oob) == IF k < UART_MAX_SEQ_LEN THEN e.seq[k] ELSE oob

\* The value of a `char` object holding byte b: `char` is signed in this
\* build (avr-gcc default, no -funsigned-char), so bytes above 127 read as
\* negative numbers.
AsChar(b) == IF b > SCHAR_MAX THEN b - Uint8Mod ELSE b

\* The `if / else if` of the loop body of uart_do_match for one entry: its
\* new progress, and whether it completed.  `udr` is a uint8_t and the
\* sequence bytes are `char`: both sides are compared as int.
EntryStep(e, udr, oob) ==
  IF udr = AsChar(SeqAt(e, e.count, oob))
    THEN IF (e.count + 1) % BitfieldMod = e.len
           THEN [count |-> 0, complete |-> TRUE]
           ELSE [count |-> (e.count + 1) % BitfieldMod, complete |-> FALSE]
    ELSE IF e.count > 0
           THEN [count |-> IF udr = AsChar(e.seq[0]) THEN 1 ELSE 0,
                 complete |-> FALSE]
           ELSE [count |-> e.count, complete |-> FALSE]

\* Faulty variant: the loop goes on after an entry has completed.
RECURSIVE DoMatchFrom_NoReturn(_, _, _, _, _)
DoMatchFrom_NoReturn(i, tbl, mask, udr, oob) ==
  IF i >= match_idx_max
    THEN [match |-> tbl, triggered_mask |-> mask, hit |-> NoHit]
    ELSE
      LET s == EntryStep(tbl[i], udr, oob[i])
          t == [tbl EXCEPT ![i].count = s.count]
          r == DoMatchFrom_NoReturn(i + 1, t,
                 IF s.complete THEN mask \cup Bit(i) ELSE mask, udr, oob)
      IN IF s.complete THEN [r EXCEPT !.hit = i] ELSE r

\* What the entries can read behind their seq[] during one call of
\* uart_do_match: one byte per entry (padding, event_handler and data of
\* that entry), left open where the entry's progress makes it read there.
OobChoices ==
  {f \in [0..(UART_MATCH_MAX - 1) -> 0..MaxChar] :
     \A i \in 0..(UART_MATCH_MAX - 1) :
       (i >= match_idx_max \/ match[i].count < UART_MAX_SEQ_LEN) => f[i] = 0}

\* The `for` loop of uart_do_match from index i on: the table, the mask and
\* the index of the entry that completed (NoHit if none); the loop returns
\* at the first entry that completes.
RECURSIVE DoMatchFrom(_, _, _, _, _)
DoMatchFrom(i, tbl, mask, udr, oob) ==
  IF i >= match_idx_max
    THEN [match |-> tbl, triggered_mask |-> mask, hit |-> NoHit]
    ELSE
      LET s == EntryStep(tbl[i], udr, oob[i])
          t == [tbl EXCEPT ![i].count = s.count]
      IN IF s.complete
           THEN [match |-> t, triggered_mask |-> mask \cup Bit(i), hit |-> i]
           ELSE DoMatchFrom(i + 1, t, mask, udr, oob)

\* void uart_do_match(uint8_t udr); oob[i] is what entry i reads behind its
\* own seq[] when its progress is at or beyond UART_MAX_SEQ_LEN.
uart_do_match(udr, oob) == DoMatchFrom(0, match, triggered_mask, udr, oob)

(* ---------------------------- receive side ---------------------------- *)
\* Faulty variant: a byte that finds the RX buffer full is stored without
\* being shown to the matcher.
RxEvent_SkipWhenFull(udr) ==
  /\ RXCIE0 \in UCSR0B
  /\ Len(arrived) < MaxArrive
  /\ IF rx_count >= UART_RX_BUFFER_LEN
       THEN UNCHANGED <<match, triggered_mask, hits>>
       ELSE \E oob \in OobChoices :
              LET m == uart_do_match(udr, oob)
              IN /\ match' = m.match
                 /\ triggered_mask' = m.triggered_mask
                 /\ hits' = Append(hits,
                        [bit |-> m.hit, n |-> match_idx_max,
                         count |-> [i \in 0..(UART_MATCH_MAX - 1) |->
                                      m.match[i].count]])
  /\ rx_buffer' = [rx_buffer EXCEPT ![rx_in] = udr]
  /\ arrived' = Append(arrived, udr)
  /\ rx_count' = Inc8(rx_count)
  /\ rx_in' = AdvanceIndex(rx_in, UART_RX_BUFFER_LEN)
  /\ novf' = IF rx_count >= UART_RX_BUFFER_LEN THEN novf + 1 ELSE novf
  /\ UNCHANGED <<rx_out, txvars, UCSR0B, pc, call, loc, ret, pre, txhist,
                 got, peeked, match_idx_max, mloc, mpre, invoked, nregs,
                 gone>>

\* Faulty variant: the handler runs the callback of the entry that completed.
RxEvent_Callback(udr) ==
  /\ RXCIE0 \in UCSR0B
  /\ Len(arrived) < MaxArrive
  /\ \E oob \in OobChoices :
       LET m == uart_do_match(udr, oob)
       IN /\ match' = m.match
          /\ triggered_mask' = m.triggered_mask
          /\ hits' = Append(hits,
                 [bit |-> m.hit, n |-> match_idx_max,
                  count |-> [i \in 0..(UART_MATCH_MAX - 1) |->
                               m.match[i].count]])
          /\ invoked' =
               IF m.hit # NoHit
                 THEN Append(invoked,
                        [event_handler |-> match[m.hit].event_handler,
                         data |-> match[m.hit].data,
                         idx |-> m.hit,
                         str |-> <<>>])
                 ELSE invoked
  /\ rx_buffer' = [rx_buffer EXCEPT ![rx_in] = udr]
  /\ arrived' = Append(arrived, udr)
  /\ rx_count' = Inc8(rx_count)
  /\ rx_in' = AdvanceIndex(rx_in, UART_RX_BUFFER_LEN)
  /\ novf' = IF rx_count >= UART_RX_BUFFER_LEN THEN novf + 1 ELSE novf
  /\ UNCHANGED <<rx_out, txvars, UCSR0B, pc, call, loc, ret, pre, txhist,
                 got, peeked, match_idx_max, mloc, mpre, nregs, gone>>

\* The body of ISR(port_rxc_vect, ISR_BLOCK) for the byte `udr` read from
\* PORT_UDR: the matcher sees the byte, then the byte is stored.
RxEvent(udr) ==
  /\ RXCIE0 \in UCSR0B
  /\ Len(arrived) < MaxArrive
  /\ \E oob \in OobChoices :
       LET m == uart_do_match(udr, oob)
       IN /\ match' = m.match
          /\ triggered_mask' = m.triggered_mask
          /\ hits' = Append(hits,
                 [bit |-> m.hit, n |-> match_idx_max,
                  count |-> [i \in 0..(UART_MATCH_MAX - 1) |->
                               m.match[i].count]])
  /\ rx_buffer' = [rx_buffer EXCEPT ![rx_in] = udr]
  /\ arrived' = Append(arrived, udr)
  /\ rx_count' = Inc8(rx_count)
  /\ rx_in' = AdvanceIndex(rx_in, UART_RX_BUFFER_LEN)
  /\ novf' = IF rx_count >= UART_RX_BUFFER_LEN THEN novf + 1 ELSE novf
  /\ UNCHANGED <<rx_out, txvars, UCSR0B, pc, call, loc, ret, pre, txhist,
                 got, peeked, match_idx_max, mloc, mpre, invoked, nregs,
                 gone>>

\* ISR(port_rxc_vect, ISR_BLOCK) with the data bytes of the transport.
ISR_RXC == \E udr \in Byte : RxEvent(udr)

\* ISR(port_rxc_vect, ISR_BLOCK) with the bytes the patterns are made of.
ISR_RXC_Match == \E udr \in {0} \cup Char : RxEvent(udr)

\* `uart.rx_count--;`
RxDecCount(from, to) ==
  /\ pc = from /\ pc' = to
  /\ rx_count' = Dec8(rx_count)
  /\ UNCHANGED <<mvars, rx_in, rx_out, rx_buffer, txvars, UCSR0B, call, loc, ret,
                 pre, txhist, rxhist>>

\* `char c = uart.rx_buffer[uart.rx_out];` where the build has moved the
\* load ahead of the store that disables the receive interrupt: rx_buffer
\* and rx_out are not volatile, so the compiler is free to place the load
\* before the volatile accesses that precede it in the source.
RxLoadEarly(at) ==
  /\ pc = at /\ ~loc.ld
  /\ loc' = [loc EXCEPT !.c = rx_buffer[rx_out], !.ld = TRUE]
  /\ UNCHANGED <<mvars, rxvars, txvars, UCSR0B, pc, call, ret, pre, txhist,
                 rxhist>>

\* `char c = uart.rx_buffer[uart.rx_out];` in source order, unless the load
\* has been done already.
RxLoad(from, to) ==
  /\ pc = from /\ pc' = to
  /\ loc' = IF loc.ld THEN loc ELSE [loc EXCEPT !.c = rx_buffer[rx_out]]
  /\ UNCHANGED <<mvars, rxvars, txvars, UCSR0B, call, ret, pre, txhist, rxhist>>

\* Faulty variant: rx_out is left where it was.
RxAdvanceOut_Stuck(from, to) ==
  /\ pc = from /\ pc' = to
  /\ UNCHANGED <<mvars, rxvars, txvars, UCSR0B, call, loc, ret, pre, txhist, rxhist>>

\* `if (++uart.rx_out == UART_RX_BUFFER_LEN) uart.rx_out = 0;`
RxAdvanceOut(from, to) ==
  /\ pc = from /\ pc' = to
  /\ rx_out' = AdvanceIndex(rx_out, UART_RX_BUFFER_LEN)
  /\ UNCHANGED <<mvars, rx_count, rx_in, rx_buffer, txvars, UCSR0B, call, loc, ret,
                 pre, txhist, rxhist>>

\* The application calls uart_recv_byte().
Call_uart_recv_byte ==
  /\ pc = "idle"
  /\ pc' = "rb_wait" /\ call' = "uart_recv_byte" /\ ret' = 0
  /\ loc' = LocInit /\ pre' = Snapshot(1, 0)
  /\ peeked' = PeekNone
  /\ UNCHANGED <<mvars, txvars, rxvars, UCSR0B, txhist, arrived, got, novf>>

\* `while ( !(uart.rx_count > 0) );`
RecvByteWait ==
  /\ pc = "rb_wait" /\ rx_count > 0
  /\ pc' = "rb_dis_rd"
  /\ UNCHANGED <<mvars, txvars, rxvars, UCSR0B, call, loc, ret, pre, txhist, rxhist>>

\* `return c;` to uart_recv's loop or to the application.
RecvByteReturn ==
  /\ pc = "rb_ret"
  /\ pc' = IF call = "uart_recv" THEN "rv_store" ELSE "done"
  /\ ret' = loc.c
  /\ got' = Append(got, loc.c)
  /\ UNCHANGED <<mvars, txvars, rxvars, UCSR0B, call, loc, pre, txhist, arrived,
                 novf, peeked>>

\* char uart_recv_byte()
uart_recv_byte ==
  \/ RecvByteWait
  \/ RxLoadEarly("rb_dis_rd")
  \/ RxLoadEarly("rb_dis_wr")
  \/ RegRead("rb_dis_rd", "rb_dis_wr")
  \/ RegWriteClear("rb_dis_wr", "rb_dec", RXCIE0)
  \/ RxDecCount("rb_dec", "rb_load")
  \/ RxLoad("rb_load", "rb_adv")
  \/ RxAdvanceOut("rb_adv", "rb_en_rd")
  \/ RegRead("rb_en_rd", "rb_en_wr")
  \/ RegWriteSet("rb_en_wr", "rb_ret", RXCIE0)
  \/ RecvByteReturn

\* Faulty variant: the emptiness test is `>=` instead of `>`.
Call_uart_try_recv_byte_NoCheck ==
  /\ pc = "idle"
  /\ call' = "uart_try_recv_byte" /\ ret' = 0
  /\ loc' = LocInit /\ pre' = Snapshot(1, 0)
  /\ pc' = IF rx_count >= 0 THEN "trb_dis_rd" ELSE "done"
  /\ peeked' = PeekNone
  /\ UNCHANGED <<mvars, txvars, rxvars, UCSR0B, txhist, arrived, got, novf>>

\* The application calls uart_try_recv_byte(); the condition of `?:`,
\* `uart.rx_count > 0`, is evaluated on entry and the empty case yields 0.
Call_uart_try_recv_byte ==
  /\ pc = "idle"
  /\ call' = "uart_try_recv_byte" /\ ret' = 0
  /\ loc' = LocInit /\ pre' = Snapshot(1, 0)
  /\ pc' = IF rx_count > 0 THEN "trb_dis_rd" ELSE "done"
  /\ peeked' = PeekNone
  /\ UNCHANGED <<mvars, txvars, rxvars, UCSR0B, txhist, arrived, got, novf>>

\* The statement expression yields `c`.
TryRecvByteReturn ==
  /\ pc = "trb_ret" /\ pc' = "done"
  /\ ret' = loc.c
  /\ got' = Append(got, loc.c)
  /\ UNCHANGED <<mvars, txvars, rxvars, UCSR0B, call, loc, pre, txhist, arrived,
                 novf, peeked>>

\* char uart_try_recv_byte()
uart_try_recv_byte ==
  \/ RxLoadEarly("trb_dis_rd")
  \/ RxLoadEarly("trb_dis_wr")
  \/ RegRead("trb_dis_rd", "trb_dis_wr")
  \/ RegWriteClear("trb_dis_wr", "trb_dec", RXCIE0)
  \/ RxDecCount("trb_dec", "trb_load")
  \/ RxLoad("trb_load", "trb_adv")
  \/ RxAdvanceOut("trb_adv", "trb_en_rd")
  \/ RegRead("trb_en_rd", "trb_en_wr")
  \/ RegWriteSet("trb_en_wr", "trb_ret", RXCIE0)
  \/ TryRecvByteReturn

\* The application calls uart_recv(str, len).  A uart_recv that directly
\* follows a uart_peek keeps the peeked bytes for comparison.
Call_uart_recv ==
  /\ pc = "idle"
  /\ \E len \in 0..UART_RX_BUFFER_LEN :
       /\ loc' = [LocInit EXCEPT !.len = len]
       /\ pre' = Snapshot(len, 0)
  /\ pc' = "rv_loop" /\ call' = "uart_recv" /\ ret' = 0
  /\ UNCHANGED <<mvars, txvars, rxvars, UCSR0B, txhist, rxhist>>

\* Faulty variant: the loop gives up when the buffer is empty.
RecvLoop_Short ==
  /\ pc = "rv_loop"
  /\ IF loc.len = 0 \/ rx_count = 0
       THEN /\ pc' = "done"
            /\ ret' = loc.n
            /\ UNCHANGED loc
       ELSE /\ pc' = "rb_wait"
            /\ loc' = [loc EXCEPT !.len = loc.len - 1, !.ld = FALSE]
            /\ UNCHANGED ret
  /\ UNCHANGED <<mvars, txvars, rxvars, UCSR0B, call, pre, txhist, rxhist>>

\* `while(len--) {` ... `}  return n;`
RecvLoop ==
  /\ pc = "rv_loop"
  /\ IF loc.len = 0
       THEN /\ pc' = "done"
            /\ ret' = loc.n
            /\ UNCHANGED loc
       ELSE /\ pc' = "rb_wait"
            /\ loc' = [loc EXCEPT !.len = loc.len - 1, !.ld = FALSE]
            /\ UNCHANGED ret
  /\ UNCHANGED <<mvars, txvars, rxvars, UCSR0B, call, pre, txhist, rxhist>>

\* `*str++ = uart_recv_byte();  n++;`
RecvStore ==
  /\ pc = "rv_store" /\ pc' = "rv_loop"
  /\ loc' = [loc EXCEPT !.str = Append(loc.str, ret), !.n = loc.n + 1]
  /\ UNCHANGED <<mvars, txvars, rxvars, UCSR0B, call, ret, pre, txhist, rxhist>>

\* size_t uart_recv(char* str, size_t len)
uart_recv ==
  \/ RecvLoop
  \/ RecvStore

\* The application calls uart_peek(str, len);
\* `if (len > UART_RX_BUFFER_LEN) len = UART_RX_BUFFER_LEN;`
Call_uart_peek ==
  /\ pc = "idle"
  /\ \E len \in 0..(UART_RX_BUFFER_LEN + 1) :
       /\ loc' = [LocInit EXCEPT !.len = IF len > UART_RX_BUFFER_LEN
                                           THEN UART_RX_BUFFER_LEN ELSE len]
       /\ pre' = Snapshot(len, 0)
  /\ pc' = "pk_wait" /\ call' = "uart_peek" /\ ret' = 0
  /\ peeked' = PeekNone
  /\ UNCHANGED <<mvars, txvars, rxvars, UCSR0B, txhist, arrived, got, novf>>

\* Faulty variant: the wait loop is missing.
PeekWait_NoWait ==
  /\ pc = "pk_wait"
  /\ pc' = "pk_init"
  /\ UNCHANGED <<mvars, txvars, rxvars, UCSR0B, call, loc, ret, pre, txhist, rxhist>>

\* `while (uart.rx_count < len);`
PeekWait ==
  /\ pc = "pk_wait" /\ ~(rx_count < loc.len)
  /\ pc' = "pk_init"
  /\ UNCHANGED <<mvars, txvars, rxvars, UCSR0B, call, loc, ret, pre, txhist, rxhist>>

\* Faulty variant: the copy starts at slot 0 instead of uart.rx_out.
PeekInit_FromZero ==
  /\ pc = "pk_init" /\ pc' = "pk_loop"
  /\ loc' = [loc EXCEPT !.out = 0, !.n = 0]
  /\ UNCHANGED <<mvars, txvars, rxvars, UCSR0B, call, ret, pre, txhist, rxhist>>

\* `unsigned char rx_out = uart.rx_out;  size_t n = 0;`
PeekInit ==
  /\ pc = "pk_init" /\ pc' = "pk_loop"
  /\ loc' = [loc EXCEPT !.out = rx_out, !.n = 0]
  /\ UNCHANGED <<mvars, txvars, rxvars, UCSR0B, call, ret, pre, txhist, rxhist>>

\* `while (len--) { *str++ = uart.rx_buffer[rx_out++];
\*                  if (rx_out == UART_RX_BUFFER_LEN) rx_out = 0;  n++; }
\*  return n;`
PeekLoop ==
  /\ pc = "pk_loop"
  /\ IF loc.len = 0
       THEN /\ pc' = "done"
            /\ ret' = loc.n
            /\ peeked' = [valid |-> TRUE, str |-> loc.str, ngot |-> Len(got),
                          novf |-> pre.novf]
            /\ UNCHANGED loc
       ELSE /\ pc' = "pk_loop"
            /\ loc' = [loc EXCEPT !.str = Append(loc.str, rx_buffer[loc.out]),
                                  !.out = AdvanceIndex(loc.out,
                                                       UART_RX_BUFFER_LEN),
                                  !.n = loc.n + 1,
                                  !.len = loc.len - 1]
            /\ UNCHANGED <<ret, peeked>>
  /\ UNCHANGED <<mvars, txvars, rxvars, UCSR0B, call, pre, txhist, arrived, got,
                 novf>>

\* size_t uart_peek(char *str, size_t len)
uart_peek ==
  \/ PeekWait
  \/ PeekInit
  \/ PeekLoop

\* char uart_peek_byte(void):
\* `return (uart.rx_count > 0 ? uart.rx_buffer[uart.rx_out]: 0);`
uart_peek_byte ==
  /\ pc = "idle" /\ pc' = "done"
  /\ call' = "uart_peek_byte"
  /\ loc' = LocInit /\ pre' = Snapshot(1, 0)
  /\ ret' = IF rx_count > 0 THEN rx_buffer[rx_out] ELSE 0
  /\ peeked' = PeekNone
  /\ UNCHANGED <<mvars, txvars, rxvars, UCSR0B, txhist, arrived, got, novf>>

(* --------------------------- flush and setup -------------------------- *)
\* The application calls uart_flush_rx().
Call_uart_flush_rx ==
  /\ pc = "idle"
  /\ pc' = "fr_idx" /\ call' = "uart_flush_rx" /\ ret' = 0
  /\ loc' = LocInit /\ pre' = Snapshot(0, 0)
  /\ UNCHANGED <<mvars, txvars, rxvars, UCSR0B, txhist, rxhist>>

\* `uart.rx_in = uart.rx_out = 0;`: two stores to objects that are not
\* volatile, in the order the compiler gives them.  Inlined into uart_setup
\* they may also come ahead of the stores of port_uart_setup(), which are
\* volatile accesses: the positions "su_idx", "su_in" and "su_out".  The
\* first store,
FlushRxFirst ==
  /\ pc \in {"fr_idx", "su_idx"}
  /\ \/ /\ rx_out' = 0 /\ pc' = (IF pc = "fr_idx" THEN "fr_in" ELSE "su_in")
        /\ UNCHANGED rx_in
     \/ /\ rx_in' = 0 /\ pc' = (IF pc = "fr_idx" THEN "fr_out" ELSE "su_out")
        /\ UNCHANGED rx_out
  /\ UNCHANGED <<mvars, rx_count, rx_buffer, txvars, UCSR0B, call, loc, ret,
                 pre, txhist, rxhist>>

\* and the second one.
FlushRxSecond ==
  /\ pc \in {"fr_in", "fr_out", "su_in", "su_out"}
  /\ pc' = (IF pc \in {"fr_in", "fr_out"} THEN "fr_cnt" ELSE "su_late")
  /\ IF pc \in {"fr_in", "su_in"}
       THEN rx_in' = 0 /\ UNCHANGED rx_out
       ELSE rx_out' = 0 /\ UNCHANGED rx_in
  /\ UNCHANGED <<mvars, rx_count, rx_buffer, txvars, UCSR0B, call, loc, ret,
                 pre, txhist, rxhist>>

\* `uart.rx_count = 0;`, then uart_flush_rx returns: to the application, or
\* to uart_setup, where `uart_flush()` goes on with uart_flush_tx().
FlushRxCount ==
  /\ pc = "fr_cnt"
  /\ pc' = IF call = "uart_setup" THEN "ft_wait" ELSE "done"
  /\ rx_count' = 0
  /\ UNCHANGED <<mvars, rx_in, rx_out, rx_buffer, txvars, UCSR0B, call, loc,
                 ret, pre, txhist, rxhist>>

\* void uart_flush_rx()
uart_flush_rx ==
  \/ FlushRxFirst
  \/ FlushRxSecond
  \/ FlushRxCount

\* The values of the `config` argument of uart_setup: NULL, or a pointer to
\* a struct uart_config.
NULL == 0
Configs == {NULL, 1}

\* Faulty variant: a NULL configuration is treated like any other.
Call_uart_setup_NoNullTest ==
  /\ pc = "idle"
  /\ \E config \in Configs :
       /\ pre' = Snapshot(0, config)
       /\ pc' = "su_port"
  /\ call' = "uart_setup" /\ ret' = 0 /\ loc' = LocInit
  /\ UNCHANGED <<mvars, txvars, rxvars, UCSR0B, txhist, rxhist>>

\* The application calls uart_setup(config) (AVR_UART_RUNTIME_CONFIG):
\* `if (!config) return;`.  The baud rate, character size, stop bit and
\* parity settings go to UBRR0 and UCSR0C, which hold no state of the
\* transport.  The build without AVR_UART_RUNTIME_CONFIG is the case
\* config # NULL; there the function goes on either with port_uart_setup()
\* or with the index stores of the inlined uart_flush_rx(), as the build
\* orders them.
Call_uart_setup ==
  /\ pc = "idle"
  /\ \E config \in Configs :
       /\ pre' = Snapshot(0, config)
       /\ IF config = NULL THEN pc' = "done"
                            ELSE pc' \in {"su_port", "su_idx"}
  /\ call' = "uart_setup" /\ ret' = 0 /\ loc' = LocInit
  /\ UNCHANGED <<mvars, txvars, rxvars, UCSR0B, txhist, rxhist>>

\* port_uart_setup(): `UCSR0B = (1<<RXCIE0) | (1<<RXEN0) | (1<<TXEN0)`, one
\* store; `uart_flush()` follows, or what is left of it when its index
\* stores came first.
SetupPort ==
  /\ pc \in {"su_port", "su_late"}
  /\ pc' = (IF pc = "su_port" THEN "fr_idx" ELSE "fr_cnt")
  /\ UCSR0B' = {RXCIE0}
  /\ UNCHANGED <<mvars, txvars, rxvars, call, loc, ret, pre, txhist, rxhist>>

\* void uart_setup(struct uart_config *config)
uart_setup ==
  \/ SetupPort
  \/ uart_flush_rx
  \/ uart_flush_tx

(* ------------------------- pattern matcher API ------------------------ *)
\* What the pattern-match functions leave alone in the transport.
tvars == <<txvars, rxvars, UCSR0B, loc, pre, txhist, rxhist>>

\* The NUL-terminated strings handed to the registration functions.
Strings == SeqsOf(Char, 0, UART_MAX_SEQ_LEN + 1)

\* `str[k]` of a NUL-terminated string.
StrAt(str, k) == IF k < Len(str) THEN str[k + 1] ELSE 0

\* `while ((i < UART_MAX_SEQ_LEN) && (*str != '\0')) seq[i++] = *str++;`
\* leaves i at:
CopyLen(str) ==
  IF Len(str) < UART_MAX_SEQ_LEN THEN Len(str) ELSE UART_MAX_SEQ_LEN

\* The string an entry holds: its first `len` sequence bytes.
Stored(e) ==
  [k \in 1..e.len |-> IF k <= UART_MAX_SEQ_LEN THEN e.seq[k - 1] ELSE 0]

\* The string uart_register_match keeps of str.
StoredOf(str) == SubSeq(str, 1, CopyLen(str))

\* The registered entries that hold exactly the string str.
Holding(str) == {i \in 0..(match_idx_max - 1) : Stored(match[i]) = str}

\* History kept at a uart_deregister_match(str) call: the callback and user
\* data registered with str, when str is registered exactly once and its
\* trigger bit is clear.
Deregistered(str) ==
  IF Cardinality(Holding(str)) = 1
       /\ Holding(str) \cap triggered_mask = {}
    THEN LET e == match[CHOOSE i \in Holding(str) : TRUE]
         IN [valid |-> TRUE, str |-> str,
             event_handler |-> e.event_handler, data |-> e.data,
             ninv |-> Len(invoked)]
    ELSE GoneNone

\* The entry uart_register_match builds in slot `e`.  The terminator goes to
\* seq[i]; for i = UART_MAX_SEQ_LEN that is the byte behind the array, the
\* first byte of event_handler, which the next statement assigns.  `count`
\* is not written.
RegisteredEntry(e, str, handler, data) ==
  LET i == CopyLen(str)
  IN [e EXCEPT
        !.seq = [k \in 0..(UART_MAX_SEQ_LEN - 1) |->
                   IF k < i THEN str[k + 1]
                   ELSE IF k = i THEN 0 ELSE e.seq[k]],
        !.len = i % BitfieldMod,
        !.event_handler = handler,
        !.data = data]

\* Faulty variant: a NULL handler is accepted.
RegisterRejects_FullOnly(handler) == match_idx_max = UART_MATCH_MAX

\* `if (!handler) return -1;` and
\* `if (match.match_idx_max == UART_MATCH_MAX) return -1;`
RegisterRejects(handler) ==
  handler = 0 \/ match_idx_max = UART_MATCH_MAX

\* uint8_t uart_register_match(const char *str, handler, void *data): the
\* two tests and the copy loop
\* `while ((i < UART_MAX_SEQ_LEN) && (*str != '\0')) seq[i++] = *str++;`,
\* which writes a slot the receive ISR does not look at.  The members of `match` are not volatile and nothing masks the
\* interrupts, so the stores that follow come in the order the build gives
\* them: the order of the source (RegisterFill), or the store of
\* match_idx_max first (RegisterIndexFirst).  The arguments stay in mpre.
Call_uart_register_match ==
  /\ pc = "idle"
  /\ nregs < MaxRegs
  /\ nregs' = nregs + 1
  /\ call' = "uart_register_match"
  /\ \E str \in Strings, handler \in 0..MaxHandler, data \in 0..MaxData :
       LET ok == ~RegisterRejects(handler)
       IN /\ mpre' = MSnapshot(str, handler, data)
          /\ gone' = IF ok /\ gone.valid /\ StoredOf(str) = gone.str
                       THEN GoneNone ELSE gone
          /\ IF ok
               THEN /\ match' = [match EXCEPT ![match_idx_max].seq =
                         [k \in 0..(UART_MAX_SEQ_LEN - 1) |->
                            IF k < CopyLen(str)
                              THEN str[k + 1]
                              ELSE match[match_idx_max].seq[k]]]
                    /\ mloc' = [mloc EXCEPT !.i = CopyLen(str),
                                            !.idx = match_idx_max,
                                            !.term = CopyLen(str)]
                    /\ pc' = "rm_fill"
                    /\ UNCHANGED ret
               ELSE /\ UNCHANGED <<match, mloc>>
                    /\ pc' = "done"
                    /\ ret' = FAIL
  /\ UNCHANGED <<tvars, match_idx_max, triggered_mask, hits, invoked>>

\* The stores in the order of the source: terminator, len, event_handler,
\* data, then `match.match_idx_max++; return 0;`.  The receive ISR looks
\* only at entries below match_idx_max, so these are one step for it.
RegisterFill ==
  /\ pc = "rm_fill" /\ pc' = "done"
  /\ match' = [match EXCEPT ![mloc.idx] =
                 RegisteredEntry(match[mloc.idx], mpre.str, mpre.handler,
                                 mpre.data)]
  /\ match_idx_max' = Inc8(match_idx_max)
  /\ ret' = 0
  /\ UNCHANGED <<tvars, triggered_mask, mloc, mpre, call, matchhist>>

\* The other order: `match.match_idx_max++` is stored first, and the
\* receive ISR sees the slot from here on.
RegisterIndexFirst ==
  /\ pc = "rm_fill" /\ pc' = "rm_first"
  /\ match_idx_max' = Inc8(match_idx_max)
  /\ UNCHANGED <<tvars, match, triggered_mask, mloc, mpre, call, ret,
                 matchhist>>

\* `p_match->len = i` is a load of the byte that holds count and len and a
\* store of it.  The load comes before or after the store of the
\* terminator; mloc.bits is the register that holds the byte in between.
RegisterLoadBits ==
  /\ pc \in {"rm_first", "rm_load"}
  /\ pc' = (IF pc = "rm_first" THEN "rm_term" ELSE "rm_len")
  /\ mloc' = [mloc EXCEPT !.bits = [count |-> match[mloc.idx].count,
                                    len |-> match[mloc.idx].len]]
  /\ UNCHANGED <<tvars, matchvars, mpre, call, ret, matchhist>>

\* `p_match->seq[i] = '\0';`; for i = UART_MAX_SEQ_LEN the byte is behind
\* the array, in event_handler, which is assigned next.
RegisterTerminator ==
  /\ pc \in {"rm_first", "rm_term"}
  /\ pc' = (IF pc = "rm_first" THEN "rm_load" ELSE "rm_len")
  /\ match' = [match EXCEPT ![mloc.idx].seq =
                 [k \in 0..(UART_MAX_SEQ_LEN - 1) |->
                    IF k = mloc.i THEN 0 ELSE match[mloc.idx].seq[k]]]
  /\ UNCHANGED <<tvars, match_idx_max, triggered_mask, mloc, mpre, call, ret,
                 matchhist>>

\* `p_match->event_handler = handler; p_match->data = data;`, which no
\* interrupt handler reads, and the store of the byte that holds count and
\* len, with the count that was loaded; `return 0;`.
RegisterStoreLen ==
  /\ pc = "rm_len" /\ pc' = "done"
  /\ match' = [match EXCEPT ![mloc.idx].event_handler = mpre.handler,
                            ![mloc.idx].data = mpre.data,
                            ![mloc.idx].count = mloc.bits.count,
                            ![mloc.idx].len = mloc.i % BitfieldMod]
  /\ mloc' = [mloc EXCEPT !.bits = MLocInit.bits]
  /\ ret' = 0
  /\ UNCHANGED <<tvars, match_idx_max, triggered_mask, mpre, call,
                 matchhist>>

uart_register_match ==
  \/ RegisterFill
  \/ RegisterIndexFirst
  \/ RegisterLoadBits
  \/ RegisterTerminator
  \/ RegisterStoreLen

\* The statement expression of uart_deregister_match that compares entry e
\* with str, from position k with n positions left; its value `ret`.
RECURSIVE SeqCompare(_, _, _, _)
SeqCompare(e, str, k, n) ==
  IF n = 0 THEN 0
  ELSE IF e.seq[k] # StrAt(str, k) THEN 1
  ELSE IF e.seq[k] = 0 THEN 0
  ELSE SeqCompare(e, str, k + 1, n - 1)

\* The search loop of uart_deregister_match from index i on.
RECURSIVE SearchFrom(_, _)
SearchFrom(str, i) ==
  IF i >= match_idx_max THEN [i |-> i, found |-> 0]
  ELSE IF SeqCompare(match[i], str, 0, match[i].len) = 0
         THEN [i |-> i, found |-> 1]
         ELSE SearchFrom(str, i + 1)

\* `i < match.match_idx_max - 1` of the compaction loop, then its exit.
CompactionNext(i) == IF i < match_idx_max - 1 THEN "dm_load" ELSE "dm_dec"

\* void uart_deregister_match(const char *str) with str == NULL.
Call_uart_deregister_match_null ==
  /\ pc = "idle" /\ pc' = "done"
  /\ nregs < MaxRegs
  /\ nregs' = nregs + 1
  /\ call' = "uart_deregister_match"
  /\ mpre' = [MSnapshot(<<>>, 0, 0) EXCEPT !.null = TRUE]
  /\ UNCHANGED <<tvars, matchvars, mloc, ret, hits, invoked, gone>>

\* uart_deregister_match: entry and the search loop.  The search only reads
\* `len` and `seq` of registered entries, which no ISR writes.
Call_uart_deregister_match ==
  /\ pc = "idle"
  /\ nregs < MaxRegs
  /\ nregs' = nregs + 1
  /\ call' = "uart_deregister_match"
  /\ \E str \in Strings :
       LET s == SearchFrom(str, 0)
       IN /\ mpre' = MSnapshot(str, 0, 0)
          /\ mloc' = [mloc EXCEPT !.i = s.i, !.found = s.found,
                                  !.idx = s.i, !.str = str]
          /\ gone' = Deregistered(str)
          /\ pc' = IF s.found = 1 THEN CompactionNext(s.i) ELSE "done"
  /\ UNCHANGED <<tvars, matchvars, ret, hits, invoked>>

\* `match.match[i] = match.match[i+1];` is a load of the entry i+1 and a
\* store to the entry i, member by member in storage order.  Of the entry
\* i+1 the receive ISR writes `count` only: the load of the byte that holds
\* the bit-fields count and len,
DeregLoadBits ==
  /\ pc = "dm_load" /\ pc' = "dm_bits"
  /\ mloc' = [mloc EXCEPT !.bits = [count |-> match[mloc.i + 1].count,
                                    len |-> match[mloc.i + 1].len]]
  /\ UNCHANGED <<tvars, matchvars, mpre, call, ret, matchhist>>

\* the store of that byte,
DeregCopyBits ==
  /\ pc = "dm_bits" /\ pc' = "dm_seq"
  /\ match' = [match EXCEPT ![mloc.i].count = mloc.bits.count,
                            ![mloc.i].len = mloc.bits.len]
  /\ mloc' = [mloc EXCEPT !.bits = MLocInit.bits]
  /\ UNCHANGED <<tvars, match_idx_max, triggered_mask, mpre, call, ret,
                 matchhist>>

\* then seq, one byte with each step,
DeregCopySeq ==
  /\ pc = "dm_seq"
  /\ pc' = (IF mloc.k + 1 < UART_MAX_SEQ_LEN THEN "dm_seq" ELSE "dm_handler")
  /\ match' = [match EXCEPT ![mloc.i].seq[mloc.k] =
                              match[mloc.i + 1].seq[mloc.k]]
  /\ mloc' = [mloc EXCEPT !.k = IF mloc.k + 1 < UART_MAX_SEQ_LEN
                                  THEN mloc.k + 1 ELSE 0]
  /\ UNCHANGED <<tvars, match_idx_max, triggered_mask, mpre, call, ret,
                 matchhist>>

\* then event_handler,
DeregCopyHandler ==
  /\ pc = "dm_handler" /\ pc' = "dm_data"
  /\ match' = [match EXCEPT
                 ![mloc.i].event_handler = match[mloc.i + 1].event_handler]
  /\ UNCHANGED <<tvars, match_idx_max, triggered_mask, mloc, mpre, call, ret,
                 matchhist>>

\* then data; `i++` and the loop test follow.
DeregCopyData ==
  /\ pc = "dm_data" /\ pc' = CompactionNext(mloc.i + 1)
  /\ match' = [match EXCEPT ![mloc.i].data = match[mloc.i + 1].data]
  /\ mloc' = [mloc EXCEPT !.i = mloc.i + 1]
  /\ UNCHANGED <<tvars, match_idx_max, triggered_mask, mpre, call, ret,
                 matchhist>>

\* Faulty variant: the trigger bits above the removed entry move down with
\* their entries and the bit of the removed entry is dropped.
DeregDecrement_ShiftMask ==
  /\ pc = "dm_dec" /\ pc' = "done"
  /\ match_idx_max' = Dec8(match_idx_max)
  /\ triggered_mask' =
       {b \in triggered_mask : b < mloc.idx}
         \cup {b - 1 : b \in {c \in triggered_mask : c > mloc.idx}}
  /\ UNCHANGED <<tvars, match, mloc, mpre, call, ret, matchhist>>

\* `match.match_idx_max--;`
DeregDecrement ==
  /\ pc = "dm_dec" /\ pc' = "done"
  /\ match_idx_max' = Dec8(match_idx_max)
  /\ UNCHANGED <<tvars, match, triggered_mask, mloc, mpre, call, ret,
                 matchhist>>

uart_deregister_match ==
  \/ DeregLoadBits
  \/ DeregCopyBits
  \/ DeregCopySeq
  \/ DeregCopyHandler
  \/ DeregCopyData
  \/ DeregDecrement

\* void uart_check_match(): entry, `triggered_mask = match.triggered_mask`.
Call_uart_check_match ==
  /\ pc = "idle" /\ pc' = "cm_loop"
  /\ call' = "uart_check_match"
  /\ mpre' = MSnapshot(<<>>, 0, 0)
  /\ mloc' = [mloc EXCEPT !.i = 0, !.mask = triggered_mask]
  /\ UNCHANGED <<tvars, matchvars, ret, matchhist>>

\* Faulty variant: the local copy of the mask is not shifted, so that bit 0
\* is tested for every entry.
CheckMatchLoop_NoShift ==
  /\ pc = "cm_loop"
  /\ IF mloc.i < match_idx_max
       THEN IF 0 \in mloc.mask
              THEN /\ IF match[mloc.i].event_handler # 0
                        THEN /\ invoked' =
                                  Append(invoked,
                                    [event_handler |->
                                       match[mloc.i].event_handler,
                                     data |-> match[mloc.i].data,
                                     idx |-> mloc.i,
                                     str |-> Stored(match[mloc.i])])
                             /\ loc' = [LocInit EXCEPT
                                  !.s = [k \in 1..MaxReply |->
                                           match[mloc.i].data],
                                  !.len = MaxReply]
                             /\ pc' = "us_loop"
                        ELSE /\ pc' = "cm_rd"
                             /\ UNCHANGED <<invoked, loc>>
                   /\ UNCHANGED mloc
              ELSE /\ mloc' = [mloc EXCEPT !.i = mloc.i + 1]
                   /\ pc' = "cm_loop"
                   /\ UNCHANGED <<invoked, loc>>
       ELSE /\ pc' = "done"
            /\ UNCHANGED <<mloc, invoked, loc>>
  /\ UNCHANGED <<txvars, rxvars, UCSR0B, pre, txhist, rxhist, matchvars,
                 mpre, call, ret, hits, nregs, gone>>

\* The loop test, the test of bit i of the local copy and the call
\* `(*p_match->event_handler)(p_match->data)`.  The handler is uart_match_cb,
\* which calls uart_send(data->str, data->len) with the text that belongs
\* to the user data; the sweep goes on when that call has returned.
CheckMatchLoop ==
  /\ pc = "cm_loop"
  /\ IF mloc.i < match_idx_max
       THEN IF mloc.i \in mloc.mask
              THEN /\ IF match[mloc.i].event_handler # 0
                        THEN /\ invoked' =
                                  Append(invoked,
                                    [event_handler |->
                                       match[mloc.i].event_handler,
                                     data |-> match[mloc.i].data,
                                     idx |-> mloc.i,
                                     str |-> Stored(match[mloc.i])])
                             /\ loc' = [LocInit EXCEPT
                                  !.s = [k \in 1..MaxReply |->
                                           match[mloc.i].data],
                                  !.len = MaxReply]
                             /\ pc' = "us_loop"
                        ELSE /\ pc' = "cm_rd"
                             /\ UNCHANGED <<invoked, loc>>
                   /\ UNCHANGED mloc
              ELSE /\ mloc' = [mloc EXCEPT !.i = mloc.i + 1]
                   /\ pc' = "cm_loop"
                   /\ UNCHANGED <<invoked, loc>>
       ELSE /\ pc' = "done"
            /\ UNCHANGED <<mloc, invoked, loc>>
  /\ UNCHANGED <<txvars, rxvars, UCSR0B, pre, txhist, rxhist, matchvars,
                 mpre, call, ret, hits, nregs, gone>>

\* `match.triggered_mask &= ~triggered;`: the load,
CheckMatchRead ==
  /\ pc = "cm_rd" /\ pc' = "cm_wr"
  /\ mloc' = [mloc EXCEPT !.reg = triggered_mask]
  /\ UNCHANGED <<tvars, matchvars, mpre, call, ret, matchhist>>

\* and the store; the shifts of the two local masks and `i++` follow.
CheckMatchWrite ==
  /\ pc = "cm_wr" /\ pc' = "cm_loop"
  /\ triggered_mask' = mloc.reg \ Bit(mloc.i)
  /\ mloc' = [mloc EXCEPT !.i = mloc.i + 1]
  /\ UNCHANGED <<tvars, match_idx_max, match, mpre, call, ret, matchhist>>

uart_check_match ==
  \/ CheckMatchLoop
  \/ CheckMatchRead
  \/ CheckMatchWrite

\* The application takes the result and is free to make the next call.
Return ==
  /\ pc = "done" /\ pc' = "idle"
  /\ call' = "none" /\ loc' = LocInit /\ ret' = 0 /\ pre' = PreNone
  /\ peeked' = IF call = "uart_peek" THEN peeked ELSE PeekNone
  /\ mloc' = MLocInit /\ mpre' = MPreNone
  /\ UNCHANGED <<txvars, rxvars, UCSR0B, txhist, arrived, got, novf,
                 matchvars, matchhist>>

(* --------------------------- specifications --------------------------- *)
\* Transmit side: the send functions and uart_flush_tx against the
\* data-register-empty interrupt.
CallTx ==
  \/ Call_uart_send_byte
  \/ Call_uart_try_send_byte
  \/ Call_uart_send
  \/ Call_uart_flush_tx

StepTx ==
  \/ uart_send_byte
  \/ uart_try_send_byte
  \/ uart_send
  \/ uart_flush_tx
  \/ Return

NextTx ==
  \/ CallTx
  \/ StepTx
  \/ ISR_UDRE

SpecTx == Init /\ [][NextTx]_vars

\* The formatted senders against the data-register-empty interrupt.
CallFmt ==
  \/ Call_uart_pgm_send
  \/ Call_uart_send_uint
  \/ Call_uart_send_int
  \/ Call_uart_send_float
  \/ uart_send_double
  \/ Call_uart_newline
  \/ Call_uart_clear
  \/ Call_uart_sendln

NextFmt ==
  \/ CallFmt
  \/ uart_send_byte
  \/ FormattedSendLoop
  \/ Return
  \/ ISR_UDRE

SpecFmt == Init /\ [][NextFmt]_vars

\* Receive side: the receive and peek functions against the
\* receive-complete interrupt.
CallRx ==
  \/ Call_uart_recv_byte
  \/ Call_uart_try_recv_byte
  \/ Call_uart_recv
  \/ Call_uart_peek
  \/ uart_peek_byte

StepRx ==
  \/ uart_recv_byte
  \/ uart_try_recv_byte
  \/ uart_recv
  \/ uart_peek
  \/ Return

NextRx ==
  \/ CallRx
  \/ StepRx
  \/ ISR_RXC

SpecRx == Init /\ [][NextRx]_vars

\* The strings the application uses when it keeps several patterns: the
\* prefixes of "aabaab...", up to one byte more than an entry can hold, and
\* a one-byte pattern above 127.
PatternChar(k) == IF k % 3 = 0 THEN 2 ELSE 1
Patterns ==
  {[k \in 1..n |-> PatternChar(k)] : n \in 0..(UART_MAX_SEQ_LEN + 1)}
    \cup {<<HighChar>>}

\* The pattern matcher with one pattern: the application registers one of
\* these strings or a string of bytes above 127, then bytes arrive and the
\* application sweeps; the callback's text goes out through the
\* data-register-empty interrupt.
RegisterFirst ==
  /\ nregs = 0
  /\ Call_uart_register_match
  /\ mpre'.data = MaxData
  /\ \/ mpre'.str \in Patterns
     \/ \A k \in 1..Len(mpre'.str) : mpre'.str[k] = HighChar

NextMatchOne ==
  \/ RegisterFirst
  \/ uart_register_match
  \/ Call_uart_check_match
  \/ uart_check_match
  \/ uart_send
  \/ uart_send_byte
  \/ Return
  \/ ISR_RXC_Match
  \/ ISR_UDRE

SpecMatchOne == Init /\ [][NextMatchOne]_vars

\* No more than MaxEvents registration calls and receive events in all.
Budget == nregs + Len(arrived) < MaxEvents

\* Each registration call hands over its own user data object, which
\* tells it from the call before and the call after.
RegisterPattern ==
  /\ Budget
  /\ Call_uart_register_match
  /\ mpre'.str \in Patterns /\ mpre'.data = nregs % (MaxData + 1)
DeregisterPattern ==
  Budget /\ Call_uart_deregister_match /\ mpre'.str \in Patterns
DeregisterNull == Budget /\ Call_uart_deregister_match_null
\* ISR(port_rxc_vect, ISR_BLOCK) with a byte that a pattern can hold.
ReceivePattern == Budget /\ \E udr \in Char : RxEvent(udr)

\* The pattern matcher: registration, deregistration and the sweep against
\* the receive-complete interrupt.
CallMatch ==
  \/ RegisterPattern
  \/ DeregisterPattern
  \/ DeregisterNull
  \/ Call_uart_check_match

StepMatch ==
  \/ uart_register_match
  \/ uart_deregister_match
  \/ uart_check_match
  \/ uart_send
  \/ uart_send_byte
  \/ Return

NextMatch ==
  \/ CallMatch
  \/ StepMatch
  \/ ReceivePattern
  \/ ISR_UDRE

SpecMatch == Init /\ [][NextMatch]_vars

\* Both sides together.
Next ==
  \/ CallTx
  \/ CallFmt
  \/ CallRx
  \/ FormattedSendLoop
  \/ uart_send_byte
  \/ uart_try_send_byte
  \/ uart_send
  \/ uart_flush_tx
  \/ uart_recv_byte
  \/ uart_try_recv_byte
  \/ uart_recv
  \/ uart_peek
  \/ Return
  \/ ISR_UDRE
  \/ ISR_RXC

Spec == Init /\ [][Next]_vars

\* Both directions with setup and flush: the byte-wise send and receive
\* functions, uart_flush_rx and uart_setup against both interrupts, with no
\* more than MaxIo bytes enqueued and received in all.
IoBudget == Len(enq) + Len(arrived) < MaxIo

CallIo ==
  \/ (IoBudget /\ Call_uart_send_byte)
  \/ (IoBudget /\ Call_uart_try_send_byte)
  \/ Call_uart_recv_byte
  \/ Call_uart_try_recv_byte
  \/ Call_uart_flush_rx
  \/ Call_uart_setup

StepIo ==
  \/ uart_send_byte
  \/ uart_try_send_byte
  \/ uart_recv_byte
  \/ uart_try_recv_byte
  \/ uart_setup
  \/ Return

NextIo ==
  \/ CallIo
  \/ StepIo
  \/ ISR_UDRE
  \/ (IoBudget /\ ISR_RXC)

SpecIo == Init /\ [][NextIo]_vars

\* The transmit side under the scheduling the hardware gives: an enabled
\* data-register-empty interrupt is eventually served, and the CPU keeps
\* executing the statements of a function that is not blocked in a wait.
SpecTxFair == Init /\ [][NextTx]_vars /\ WF_vars(ISR_UDRE) /\ WF_vars(StepTx)

\* Both directions under the same scheduling: an enabled data-register-empty
\* interrupt is eventually served and the CPU keeps executing statements.
SpecIoFair == Init /\ [][NextIo]_vars /\ WF_vars(ISR_UDRE) /\ WF_vars(StepIo)

(* ----------------------- vocabulary of the claims --------------------- *)
IsPrefix(s, t) == Len(s) <= Len(t) /\ \A i \in 1..Len(s) : s[i] = t[i]

Min(a, b) == IF a < b THEN a ELSE b

\* Bytes the TX ISR wrote / the RX ISR stored since the running call began.
Drained == Len(wire) - pre.nwire
Arrivals == Len(arrived) - pre.narr

\* The k slots of the RX storage that successive reads visit, oldest first.
RxWindow(k) ==
  [i \in 1..k |-> rx_buffer[(rx_out + i - 1) % UART_RX_BUFFER_LEN]]

\* The unread bytes in read order.
RxUnread == RxWindow(rx_count)

Returned(f) == pc = "done" /\ call = f

(* ------------------------------- C1 ----------------------------------- *)
\* C1: at every moment the bytes written to the hardware data register are
\* a prefix of the bytes enqueued by uart_send_byte / uart_try_send_byte /
\* uart_send, in enqueue order: nothing duplicated, skipped or reordered.
C1_TxFifoOrder == IsPrefix(wire, enq)

\* More bytes than the buffer holds went out (the indices wrapped) while a
\* further byte is still queued.
C1_Witness ==
  /\ Len(wire) > UART_TX_BUFFER_LEN
  /\ Len(enq) > Len(wire)
  /\ \E i \in 1..(Len(wire) - 1) : wire[i] # wire[i + 1]

(* ------------------------------- C2 ----------------------------------- *)
\* C2: as long as no receive event found the RX buffer full, the bytes the
\* receive functions returned are the first bytes that arrived, in arrival
\* order, each once; and whenever no read is in progress the returned bytes
\* followed by the unread ones are exactly the bytes that arrived.
C2_RxFifoOrder ==
  novf = 0 =>
    /\ IsPrefix(got, arrived)
    /\ rx_count <= UART_RX_BUFFER_LEN
    /\ pc \in {"idle", "done"} => got \o RxUnread = arrived

\* More bytes than the buffer holds were read (the indices wrapped), reads
\* and receive events interleaved, and a byte is still unread.
C2_Witness ==
  /\ novf = 0
  /\ Len(got) > UART_RX_BUFFER_LEN
  /\ rx_count > 0
  /\ pc = "done"
  /\ \E i \in 1..(Len(got) - 1) : got[i] # got[i + 1]

(* ------------------------------- C3 ----------------------------------- *)
\* C3: under weak fairness of the transmit-ready handler, every byte whose
\* uart_send_byte / successful uart_try_send_byte call has returned is
\* eventually written to the hardware data register: whenever fewer bytes
\* have been written than sends have returned, the written bytes later
\* catch up with the returned sends (which, with C1, are these very bytes).
C3_SentEventuallyWritten == (nret > Len(wire)) ~> (Len(wire) >= nret)

\* A send has returned and its byte is not on the wire yet.
C3_Witness == nret > Len(wire) /\ pc = "idle"

(* ------------------------------- C4 ----------------------------------- *)
\* C4: uart_try_send_byte called with tx_count = UART_TX_BUFFER_LEN returns
\* 0 and changes neither tx_in, the storage nor (the ISR's own draining
\* aside) tx_count, tx_out and the notification bit; called with room it
\* returns non-zero, stores exactly its byte at tx_in, advances tx_in and
\* adds exactly one to tx_count.
C4_TrySendByte ==
  Returned("uart_try_send_byte") =>
    /\ tx_out = (pre.tx_out + Drained) % UART_TX_BUFFER_LEN
    /\ IF pre.tx_count = UART_TX_BUFFER_LEN
         THEN /\ ret = 0
              /\ tx_in = pre.tx_in
              /\ tx_buffer = pre.tx_buffer
              /\ Len(enq) = pre.nenq
              /\ tx_count = pre.tx_count - Drained
              /\ Drained = 0 => UCSR0B = pre.UCSR0B
         ELSE /\ ret # 0
              /\ tx_in = (pre.tx_in + 1) % UART_TX_BUFFER_LEN
              /\ tx_buffer = [pre.tx_buffer EXCEPT ![pre.tx_in] = pre.c]
              /\ enq = Append(SubSeq(enq, 1, pre.nenq), pre.c)
              /\ tx_count = pre.tx_count + 1 - Drained
              /\ UDRIE0 \in UCSR0B <=> tx_count > 0

\* The call found the buffer full, and nothing was drained since.
C4_Witness ==
  /\ Returned("uart_try_send_byte")
  /\ pre.tx_count = UART_TX_BUFFER_LEN
  /\ tx_count = UART_TX_BUFFER_LEN
  /\ ret = 0

(* ------------------------------- C5 ----------------------------------- *)
\* C5: uart_try_recv_byte called with rx_count = 0 returns 0 and changes
\* neither rx_out nor the notification bits, nor (receive events aside)
\* rx_count and rx_in; called with rx_count > 0 it returns the byte at
\* rx_out, advances rx_out by one with wraparound and takes exactly one
\* from rx_count.
C5_TryRecvByte ==
  Returned("uart_try_recv_byte") =>
    /\ rx_in = (pre.rx_in + Arrivals) % UART_RX_BUFFER_LEN
    /\ UCSR0B = pre.UCSR0B
    /\ IF pre.rx_count = 0
         THEN /\ ret = 0
              /\ rx_out = pre.rx_out
              /\ rx_count = Arrivals
              /\ Len(got) = pre.ngot
              /\ Arrivals = 0 => rx_buffer = pre.rx_buffer
         ELSE /\ rx_out = (pre.rx_out + 1) % UART_RX_BUFFER_LEN
              /\ rx_count = pre.rx_count + Arrivals - 1
              /\ got = Append(SubSeq(got, 1, pre.ngot), ret)
              /\ novf = pre.novf => ret = pre.rx_buffer[pre.rx_out]

\* The call found the buffer empty after earlier bytes had been read.
C5_Witness ==
  /\ Returned("uart_try_recv_byte")
  /\ pre.rx_count = 0
  /\ rx_count = 0
  /\ \E i \in 1..Len(got) : got[i] # 0

(* ------------------------------- C6 ----------------------------------- *)
\* C6: uart_peek(buf, n) returns n (clamped to the capacity) and copies the
\* n oldest unread bytes in arrival order without changing rx_out or the
\* number of unread bytes; a uart_recv(buf2, n) that follows it with no
\* read and no overwrite in between returns the same n bytes in the same
\* order and takes n from rx_count.
C6_PeekThenRecv ==
  /\ Returned("uart_peek") =>
       /\ ret = Min(pre.len, UART_RX_BUFFER_LEN)
       /\ Len(loc.str) = ret
       /\ rx_out = pre.rx_out
       /\ rx_count = pre.rx_count + Arrivals
       /\ rx_in = (pre.rx_in + Arrivals) % UART_RX_BUFFER_LEN
       /\ Len(got) = pre.ngot
       /\ novf = 0 => loc.str = SubSeq(arrived, Len(got) + 1, Len(got) + ret)
  /\ ( /\ Returned("uart_recv")
       /\ peeked.valid
       /\ Len(peeked.str) = pre.len
       /\ peeked.ngot = pre.ngot
       /\ peeked.novf = novf ) =>
       /\ loc.str = peeked.str
       /\ ret = pre.len
       /\ rx_count = pre.rx_count + Arrivals - pre.len

\* uart_recv has just returned the two bytes the preceding uart_peek saw,
\* read across the wraparound of the storage.
C6_Witness ==
  /\ Returned("uart_recv")
  /\ peeked.valid
  /\ Len(peeked.str) = pre.len
  /\ peeked.ngot = pre.ngot
  /\ peeked.novf = novf
  /\ pre.len = 2
  /\ pre.rx_out = UART_RX_BUFFER_LEN - 1
  /\ peeked.str[1] # peeked.str[2]

(* ------------------------------- C7 ----------------------------------- *)
\* C7: uart_recv(buf, n) returns n after consuming exactly n bytes; as long
\* as no receive event found the buffer full, these are the n oldest unread
\* bytes, and the bytes it did not read are still in the buffer in arrival
\* order, the oldest of them at rx_out where the next read takes it.
C7_RecvExactly ==
  Returned("uart_recv") =>
    /\ ret = pre.len
    /\ Len(loc.str) = pre.len
    /\ Len(got) = pre.ngot + pre.len
    /\ loc.str = SubSeq(got, pre.ngot + 1, Len(got))
    /\ rx_count = pre.rx_count + Arrivals - pre.len
    /\ rx_out = (pre.rx_out + pre.len) % UART_RX_BUFFER_LEN
    /\ novf = 0 =>
         /\ loc.str = SubSeq(arrived, pre.ngot + 1, pre.ngot + pre.len)
         /\ RxUnread = SubSeq(arrived, Len(got) + 1, Len(arrived))

\* uart_recv was called with more unread bytes than it was asked for.
C7_Witness ==
  /\ Returned("uart_recv")
  /\ novf = 0
  /\ pre.len >= 1
  /\ pre.rx_count > pre.len
  /\ RxUnread # <<>>
  /\ RxUnread[1] # loc.str[Len(loc.str)]

(* ------------------------------- C8 ----------------------------------- *)
\* C8 as stated: a peek on an empty RX buffer returns zero copied bytes and
\* leaves the buffer state unchanged (receive events aside).
C8_PeekEmptyReturnsZero ==
  (Returned("uart_peek") /\ pre.rx_count = 0) =>
    /\ ret = 0
    /\ loc.str = <<>>
    /\ rx_out = pre.rx_out
    /\ rx_count = pre.rx_count + Arrivals

\* C8 as amended: on an empty RX buffer uart_peek_byte and
\* uart_try_recv_byte return 0 and, receive events aside, leave the buffer
\* as it was; uart_peek(buf, n) called on an empty buffer does not return
\* before n (clamped to the capacity) bytes have arrived, then returns that
\* number, with rx_out unchanged and every arrived byte still unread.
C8_PeekEmpty ==
  /\ (Returned("uart_peek_byte") /\ pre.rx_count = 0) =>
       /\ ret = 0
       /\ rx_out = pre.rx_out
       /\ rx_count = Arrivals
       /\ rx_in = (pre.rx_in + Arrivals) % UART_RX_BUFFER_LEN
       /\ Arrivals = 0 => rx_buffer = pre.rx_buffer
  /\ (Returned("uart_try_recv_byte") /\ pre.rx_count = 0) =>
       /\ ret = 0
       /\ rx_out = pre.rx_out
       /\ rx_count = Arrivals
       /\ rx_in = (pre.rx_in + Arrivals) % UART_RX_BUFFER_LEN
  /\ (Returned("uart_peek") /\ pre.rx_count = 0) =>
       /\ ret = Min(pre.len, UART_RX_BUFFER_LEN)
       /\ Arrivals >= ret
       /\ rx_out = pre.rx_out
       /\ rx_count = Arrivals
  /\ (call = "uart_peek" /\ pc \in {"pk_init", "pk_loop"}) =>
       rx_count >= loc.len

\* uart_peek, called on an empty buffer, has returned a non-zero count.
C8_Witness ==
  /\ Returned("uart_peek")
  /\ pre.rx_count = 0
  /\ ret > 0

(* ------------------------------- C9 ----------------------------------- *)
\* C9: uart_flush_tx resets the TX indices only once tx_count is 0; when it
\* returns, every byte enqueued before the call has been written to the
\* hardware data register in enqueue order and tx_in = tx_out = tx_count = 0.
C9_FlushTxDrains ==
  /\ pc \in {"ft_idx", "ft_cnt"} => tx_count = 0 /\ wire = enq
  /\ Returned("uart_flush_tx") =>
       /\ wire = enq
       /\ Len(enq) = pre.nenq
       /\ tx_in = 0 /\ tx_out = 0 /\ tx_count = 0

\* uart_flush_tx was called with bytes queued and has returned.
C9_Witness ==
  /\ Returned("uart_flush_tx")
  /\ pre.tx_count = UART_TX_BUFFER_LEN
  /\ pre.tx_out # 0

(* ------------------------------- C10 ---------------------------------- *)
\* C10: after more than UART_RX_BUFFER_LEN receive events with no read at
\* all, rx_count is UART_RX_BUFFER_LEN and successive reads return the
\* UART_RX_BUFFER_LEN most recently received bytes, oldest first.
C10_OverflowKeepsNewest ==
  (got = <<>> /\ pc = "idle" /\ Len(arrived) > UART_RX_BUFFER_LEN) =>
    /\ rx_count = UART_RX_BUFFER_LEN
    /\ RxWindow(UART_RX_BUFFER_LEN) =
         SubSeq(arrived, Len(arrived) - UART_RX_BUFFER_LEN + 1, Len(arrived))

(* ------------------ vocabulary of the matcher claims ------------------ *)
\* Progress of entry i before the j-th received byte (the table is zero
\* before the first byte); meaningful while no entry has been moved.
ProgressBefore(i, j) == IF j = 1 THEN 0 ELSE hits[j - 1].count[i]

\* The L received bytes ending with the j-th.
Window(j, L) == SubSeq(arrived, j - L + 1, j)

(* ------------------------------- C11 ---------------------------------- *)
\* C11: in every reachable state rx_count <= UART_RX_BUFFER_LEN, also after
\* receive events that arrive while the RX buffer is full.
C11_RxCountCapped == rx_count <= UART_RX_BUFFER_LEN

(* ------------------------------- C12 ---------------------------------- *)
\* C12: under all interleavings of the send functions and uart_flush_tx with
\* the data-register-empty ISR, 0 <= tx_count <= UART_TX_BUFFER_LEN and tx_in
\* and tx_out lie in [0, UART_TX_BUFFER_LEN).
C12_TxBounds ==
  /\ tx_count \in 0..UART_TX_BUFFER_LEN
  /\ tx_in \in 0..(UART_TX_BUFFER_LEN - 1)
  /\ tx_out \in 0..(UART_TX_BUFFER_LEN - 1)

\* The TX buffer is full and both indices have wrapped around.
C12_Witness ==
  /\ tx_count = UART_TX_BUFFER_LEN
  /\ Len(wire) >= UART_TX_BUFFER_LEN
  /\ Len(enq) >= 2 * UART_TX_BUFFER_LEN
  /\ tx_in = tx_out

(* ------------------------------- C13 ---------------------------------- *)
\* C13: with a single registered pattern P, 1 <= |P|, at progress 0, feeding
\* the bytes of P in order sets P's trigger bit on the last byte and on no
\* earlier byte and leaves the progress at 0; and a partial attempt that
\* fails on a byte other than P's first byte leaves the progress at 0, so
\* that the same holds right after it.
C13_SinglePatternCompletes ==
  (match_idx_max = 1 /\ match[0].len >= 1) =>
    LET P == Stored(match[0])
        L == Len(P)
    IN /\ \A j \in L..Len(arrived) :
            ( /\ hits[j - L + 1].n = 1
              /\ ProgressBefore(0, j - L + 1) = 0
              /\ Window(j, L) = P ) =>
              /\ hits[j].bit = 0
              /\ hits[j].count[0] = 0
              /\ \A k \in (j - L + 1)..(j - 1) : hits[k].bit = NoHit
       /\ \A j \in 1..Len(arrived) :
            ( /\ hits[j].n = 1
              /\ ProgressBefore(0, j) > 0
              /\ ProgressBefore(0, j) < L
              /\ arrived[j] # P[ProgressBefore(0, j) + 1]
              /\ arrived[j] # P[1] ) =>
              /\ hits[j].bit = NoHit
              /\ hits[j].count[0] = 0

(* ------------------------------- C14 ---------------------------------- *)
\* C14: with one registered pattern P, 1 <= |P|, whenever the most recent
\* |P| received bytes equal P and none of them belonged to an earlier
\* completed match of P, uart_do_match sets P's trigger bit on that byte.
C14_TriggersWhenReceived ==
  (match_idx_max = 1 /\ match[0].len >= 1) =>
    LET P == Stored(match[0])
        L == Len(P)
    IN \A j \in L..Len(arrived) :
         ( /\ hits[j - L + 1].n = 1
           /\ Window(j, L) = P
           /\ \A k \in (j - L + 1)..(j - 1) : hits[k].bit = NoHit ) =>
           hits[j].bit = 0

(* ------------------------------- C15 ---------------------------------- *)
\* C15: with a two-byte pattern and a three-byte pattern that extends it
\* registered in that order ("ab", "abc"), both at progress 0, feeding the
\* two bytes sets only the bit of the shorter one and leaves the longer one
\* at progress 2, so that its third byte then completes it.
C15_PrefixPatterns ==
  ( /\ match_idx_max = 2 /\ nregs = 2
    /\ match[0].len = 2 /\ match[1].len = 3
    /\ SubSeq(Stored(match[1]), 1, 2) = Stored(match[0]) ) =>
    \A j \in 2..Len(arrived) :
      ( /\ hits[j - 1].n = 2
        /\ ProgressBefore(0, j - 1) = 0
        /\ ProgressBefore(1, j - 1) = 0
        /\ Window(j, 2) = Stored(match[0]) ) =>
        /\ hits[j - 1].bit = NoHit
        /\ hits[j].bit = 0
        /\ hits[j].count[1] = 2
        /\ (j < Len(arrived) /\ arrived[j + 1] = match[1].seq[2]) =>
              hits[j + 1].bit = 1

(* ------------------------------- C16 ---------------------------------- *)
\* Two entries that differ at most in their progress.
SamePattern(e1, e2) ==
  /\ e1.seq = e2.seq /\ e1.len = e2.len
  /\ e1.event_handler = e2.event_handler /\ e1.data = e2.data

\* C16: uart_register_match with a NULL handler or a full table returns a
\* non-zero value and leaves the entry count, every entry and
\* triggered_mask as they were (progress and mask move only with bytes
\* received since); any other call returns 0.
C16_RegisterFailure ==
  Returned("uart_register_match") =>
    IF mpre.handler = 0 \/ mpre.match_idx_max = UART_MATCH_MAX
      THEN /\ ret # 0
           /\ match_idx_max = mpre.match_idx_max
           /\ \A i \in 0..(UART_MATCH_MAX - 1) :
                SamePattern(match[i], mpre.match[i])
           /\ (Len(arrived) = mpre.narr) =>
                (match = mpre.match /\ triggered_mask = mpre.triggered_mask)
      ELSE ret = 0

\* A registration with a handler was refused because the table was full.
C16_Witness ==
  /\ Returned("uart_register_match")
  /\ mpre.handler # 0
  /\ mpre.match_idx_max = UART_MATCH_MAX
  /\ ret = FAIL

(* ------------------------------- C17 ---------------------------------- *)
\* C17: uart_register_match with a sequence longer than UART_MAX_SEQ_LEN
\* succeeds and stores its first UART_MAX_SEQ_LEN bytes with length
\* UART_MAX_SEQ_LEN, and the entry's bit is then set as soon as those bytes
\* have been received in order starting from progress 0.
C17_LongSequenceTruncated ==
  ( /\ Returned("uart_register_match")
    /\ Len(mpre.str) > UART_MAX_SEQ_LEN
    /\ mpre.handler # 0
    /\ mpre.match_idx_max # UART_MATCH_MAX ) =>
    LET i == mpre.match_idx_max
        P == SubSeq(mpre.str, 1, UART_MAX_SEQ_LEN)
    IN /\ ret = 0
       /\ match_idx_max = i + 1
       /\ match[i].len = UART_MAX_SEQ_LEN
       /\ Stored(match[i]) = P
       /\ \A j \in (mpre.narr + UART_MAX_SEQ_LEN)..Len(arrived) :
            ( /\ Window(j, UART_MAX_SEQ_LEN) = P
              /\ 0 = IF j - UART_MAX_SEQ_LEN = mpre.narr
                        THEN mpre.match[i].count
                        ELSE hits[j - UART_MAX_SEQ_LEN].count[i] ) =>
              hits[j].bit = i

(* ------------------------------- C18 ---------------------------------- *)
\* C18: uart_deregister_match(s) removes the first entry whose stored
\* sequence is exactly s, and leaves the table unchanged when no stored
\* sequence equals s.
C18_DeregisterExact ==
  (Returned("uart_deregister_match") /\ ~mpre.null) =>
    LET n == mpre.match_idx_max
        Exact == {i \in 0..(n - 1) : Stored(mpre.match[i]) = mpre.str}
    IN IF Exact = {}
         THEN /\ match_idx_max = n
              /\ \A i \in 0..(n - 1) : SamePattern(match[i], mpre.match[i])
         ELSE LET r == CHOOSE i \in Exact : \A k \in Exact : i <= k
              IN /\ match_idx_max = n - 1
                 /\ \A i \in 0..(r - 1) :
                      SamePattern(match[i], mpre.match[i])
                 /\ \A i \in r..(n - 2) :
                      SamePattern(match[i], mpre.match[i + 1])

(* ------------------------------- C19 ---------------------------------- *)
\* The progress rule of one entry, run over str from position k on: the
\* entry completes on the last byte and on no earlier one.
RECURSIVE CompletesAtEnd(_, _, _)
CompletesAtEnd(e, str, k) ==
  LET s == EntryStep(e, str[k], 0)
  IN IF k = Len(str)
       THEN s.complete
       ELSE ~s.complete /\ CompletesAtEnd([e EXCEPT !.count = s.count],
                                          str, k + 1)

\* C19: when uart_deregister_match removes entry i of n and no byte is
\* received during the call, n-1 entries remain, entries below i are
\* untouched, the entries formerly at i+1..n-1 sit at i..n-2 with sequence,
\* length, callback, user data and progress unchanged, each remaining
\* pattern still completes on its own sequence, and a successful
\* uart_register_match fills the first free index.
C19_DeregisterCompacts ==
  /\ ( /\ Returned("uart_deregister_match")
       /\ mloc.found = 1
       /\ Len(arrived) = mpre.narr ) =>
       LET n == mpre.match_idx_max
           i == mloc.idx
       IN /\ match_idx_max = n - 1
          /\ \A k \in 0..(i - 1) : match[k] = mpre.match[k]
          /\ \A k \in i..(n - 2) : match[k] = mpre.match[k + 1]
          /\ \A k \in 0..(n - 2) :
               (match[k].len >= 1) =>
                 CompletesAtEnd([match[k] EXCEPT !.count = 0],
                                Stored(match[k]), 1)
  /\ (Returned("uart_register_match") /\ ret = 0) =>
       /\ match_idx_max = mpre.match_idx_max + 1
       /\ Stored(match[mpre.match_idx_max]) = StoredOf(mpre.str)
       /\ match[mpre.match_idx_max].event_handler = mpre.handler
       /\ match[mpre.match_idx_max].data = mpre.data
       /\ \A k \in 0..(mpre.match_idx_max - 1) :
            SamePattern(match[k], mpre.match[k])

(* ------------------------------- C20 ---------------------------------- *)
\* C20: once uart_deregister_match(P) has returned for a pattern P that was
\* registered once and had no pending trigger bit, uart_check_match never
\* again runs the callback and user data registered with P for an entry
\* holding P, until P is registered again.
C20_NoCallbackAfterDeregister ==
  (gone.valid /\ ~(call = "uart_deregister_match" /\ pc # "done")) =>
    \A k \in (gone.ninv + 1)..Len(invoked) :
      ~( /\ invoked[k].str = gone.str
         /\ invoked[k].event_handler = gone.event_handler
         /\ invoked[k].data = gone.data )

(* ------------------------------- C21 ---------------------------------- *)
\* The callbacks uart_check_match has run since it was called.
Swept == SubSeq(invoked, mpre.ninv + 1, Len(invoked))

\* The trigger bits that were set, below the entry count, at the call.
Due == mpre.triggered_mask \cap (0..(mpre.match_idx_max - 1))

\* C21: uart_check_match, with no byte received during it, runs for every
\* index below the entry count whose trigger bit was set at the call the
\* callback of that entry with that entry's user data, exactly once and in
\* ascending index order, and runs no callback for an entry whose bit was
\* clear (none at all when no bit was set).
C21_CheckMatchInvokes ==
  (Returned("uart_check_match") /\ Len(arrived) = mpre.narr) =>
    /\ Len(Swept) = Cardinality(Due)
    /\ \A k \in 1..Len(Swept) :
         /\ Swept[k].idx \in Due
         /\ Swept[k].event_handler = mpre.match[Swept[k].idx].event_handler
         /\ Swept[k].data = mpre.match[Swept[k].idx].data
    /\ \A k \in 1..(Len(Swept) - 1) : Swept[k].idx < Swept[k + 1].idx

\* The sweep found the bits of the first and the third of three entries
\* set, the second clear, the two entries carry different user data, and
\* the two callbacks have sent their texts in that order.
C21_Witness ==
  /\ Returned("uart_check_match")
  /\ Len(arrived) = mpre.narr
  /\ mpre.match_idx_max = 3
  /\ mpre.triggered_mask = {0, 2}
  /\ mpre.match[0].data # mpre.match[2].data
  /\ Len(Swept) = 2
  /\ Len(enq) = 2 * MaxReply
  /\ enq[MaxReply] = mpre.match[0].data
  /\ enq[2 * MaxReply] = mpre.match[2].data

(* ------------------------------- C22 ---------------------------------- *)
\* C22: when uart_check_match returns and no byte was received during the
\* call, every trigger bit that was set at the call is clear, that is
\* triggered_mask is 0, whatever registrations, deregistrations, received
\* bytes and sweeps went before.
C22_MaskClearAfterSweep ==
  (Returned("uart_check_match") /\ Len(arrived) = mpre.narr) =>
    triggered_mask = {}

(* ------------------------------- C23 ---------------------------------- *)
\* C23: no callback is run from within the receive-complete handler: a step
\* in which a byte is received runs no callback, leaves the application
\* where it is, and changes of the pattern table nothing but progress
\* counters (and triggered_mask); a callback is run only by a step of
\* uart_check_match in the cooperative context.
C23_NoCallbackInHandler ==
  [][ /\ (arrived' # arrived) =>
           /\ invoked' = invoked
           /\ pc' = pc /\ call' = call
           /\ match_idx_max' = match_idx_max
           /\ \A i \in 0..(UART_MATCH_MAX - 1) :
                SamePattern(match'[i], match[i])
      /\ (invoked' # invoked) =>
           /\ call = "uart_check_match" /\ pc = "cm_loop"
           /\ arrived' = arrived
    ]_vars

\* In the middle of a sweep, after its first callback, a received byte
\* completed a pattern, and no further callback has been run.
C23_Witness ==
  /\ call = "uart_check_match" /\ pc = "cm_rd"
  /\ Len(arrived) > mpre.narr
  /\ hits[Len(hits)].bit # NoHit
  /\ Len(invoked) = mpre.ninv + 1

(* ------------------------------- C24 ---------------------------------- *)
\* C24: with runtime configuration, uart_setup(NULL) returns leaving the
\* contents, indices and counts of both buffers and both notification
\* enable bits as they were at the call; only the handlers that ran in the
\* meantime moved their own side (bytes drained, bytes received).
C24_SetupNullNoOp ==
  (Returned("uart_setup") /\ pre.c = NULL) =>
    /\ tx_in = pre.tx_in
    /\ tx_buffer = pre.tx_buffer
    /\ tx_out = (pre.tx_out + Drained) % UART_TX_BUFFER_LEN
    /\ tx_count = pre.tx_count - Drained
    /\ rx_out = pre.rx_out
    /\ rx_in = (pre.rx_in + Arrivals) % UART_RX_BUFFER_LEN
    /\ rx_count = pre.rx_count + Arrivals
    /\ (RXCIE0 \in UCSR0B) <=> (RXCIE0 \in pre.UCSR0B)
    /\ (Drained = 0) => UCSR0B = pre.UCSR0B
    /\ (Arrivals = 0) => rx_buffer = pre.rx_buffer

\* uart_setup(NULL) has returned with bytes queued in both directions and
\* the transmit notification enabled, and no handler has run since the call.
C24_Witness ==
  /\ Returned("uart_setup") /\ pre.c = NULL
  /\ pre.tx_count > 0 /\ pre.rx_count > 0
  /\ pre.tx_in # 0 /\ pre.rx_in # 0
  /\ UDRIE0 \in UCSR0B
  /\ Drained = 0 /\ Arrivals = 0

(* ------------------------------- C25 ---------------------------------- *)
\* C25: uart_setup, called in any reachable state (with a configuration),
\* also with bytes still queued in the TX buffer, eventually returns with
\* the TX buffer empty, no byte in the RX buffer but those received since
\* the call, and the receive notification enabled, provided the
\* data-register-empty handler runs whenever its notification is enabled.
C25_SetupReturns ==
  (call = "uart_setup" /\ pc \in {"su_port", "su_idx"}) ~>
    ( /\ Returned("uart_setup")
      /\ tx_count = 0
      /\ rx_count <= Arrivals
      /\ RXCIE0 \in UCSR0B )

(* ------------------------------- C26 ---------------------------------- *)
\* A step of the data-register-empty handler: the application stays where
\* it is and no byte is received.
UdreStep == pc' = pc /\ call' = call /\ loc' = loc /\ arrived' = arrived

\* C26: one run of the data-register-empty handler with tx_count > 0 writes
\* exactly the byte at tx_out to the data register, advances tx_out with
\* wraparound, takes one from tx_count and clears UDRIE0 if and only if
\* tx_count is then 0; a run with tx_count = 0 writes nothing and changes
\* nothing.
C26_UdreHandlerStep ==
  [][ UdreStep =>
        /\ UDRIE0 \in UCSR0B
        /\ tx_count > 0
        /\ wire' = Append(wire, tx_buffer[tx_out])
        /\ tx_out' = (tx_out + 1) % UART_TX_BUFFER_LEN
        /\ tx_count' = tx_count - 1
        /\ (UDRIE0 \notin UCSR0B') <=> (tx_count' = 0)
        /\ (RXCIE0 \in UCSR0B') <=> (RXCIE0 \in UCSR0B)
        /\ UNCHANGED <<tx_in, tx_buffer, rxvars, enq, got, ret>>
    ]_vars

\* The handler has written as many bytes as the buffer holds, wrapping
\* tx_out, and emptied the buffer, and its notification is enabled again
\* with nothing to send.
C26_Witness ==
  /\ Len(wire) = UART_TX_BUFFER_LEN /\ wire = enq
  /\ tx_out = 0 /\ tx_in = 0
  /\ tx_count = 0
  /\ UDRIE0 \in UCSR0B

(* ------------------------------- C27 ---------------------------------- *)
\* The application is inside one of the send functions.
InSend ==
  /\ call \in {"uart_send_byte", "uart_try_send_byte", "uart_send"}
              \cup FormattedCalls
  /\ pc \notin {"idle", "done"}

\* C27: whenever the application is not inside uart_send_byte /
\* uart_try_send_byte, UDRIE0 is set only if tx_count > 0, under every
\* interleaving of the send and receive functions with both handlers, each
\* enable and disable being a read and a later write of UCSR0B.
C27_UdrieOnlyWhenQueued ==
  ~InSend => (UDRIE0 \in UCSR0B => tx_count > 0)

(* ------------------------------- C28 ---------------------------------- *)
\* The application is inside one of the receive functions.
InRecv ==
  /\ call \in {"uart_recv_byte", "uart_try_recv_byte", "uart_recv"}
  /\ pc \notin {"idle", "done"}

\* The statements of uart_recv_byte / uart_try_recv_byte between the store
\* of port_disable_rxc_interrupt() and that of port_enable_rxc_interrupt().
RxCritical == {"rb_dec", "rb_load", "rb_adv", "rb_en_rd", "rb_en_wr",
               "trb_dec", "trb_load", "trb_adv", "trb_en_rd", "trb_en_wr"}

\* C28: once uart_setup has returned, RXCIE0 is set at every point at which
\* no uart_recv_byte / uart_try_recv_byte call is in progress: such a call
\* clears it only for its critical section and sets it again before it
\* returns, and no other operation or handler clears it.
C28_RxcieListening ==
  /\ ~InRecv => RXCIE0 \in UCSR0B
  /\ RXCIE0 \notin UCSR0B => pc \in RxCritical

\* uart_try_recv_byte has taken a byte and returned, and the
\* data-register-empty handler wrote to UCSR0B during the call.
C28_Witness ==
  /\ Returned("uart_try_recv_byte")
  /\ pre.rx_count > 0
  /\ Drained > 0
  /\ tx_count = 0
  /\ RXCIE0 \in UCSR0B

(* ------------------------------- C29 ---------------------------------- *)
\* After `++uart.tx_count`, up to the update of tx_in.
TxMutation == {"sb_store", "sb_adv", "tsb_store", "tsb_adv"}

\* After `uart.rx_count--`, up to the update of rx_out.
RxMutation == {"rb_load", "rb_adv", "trb_load", "trb_adv"}

\* C29: the data-register-empty handler never runs between the update of
\* tx_count and that of the storage and tx_in inside uart_send_byte /
\* uart_try_send_byte, and the receive-complete handler never runs between
\* the update of rx_count and that of rx_out inside uart_recv_byte /
\* uart_try_recv_byte: there the notification is disabled and no byte is
\* written or received; while uart_send_byte waits for room and
\* uart_recv_byte waits for a byte, the notification of the handler they
\* wait for is enabled.
C29_CriticalSections ==
  /\ [](pc \in TxMutation => UDRIE0 \notin UCSR0B)
  /\ [](pc \in RxMutation => RXCIE0 \notin UCSR0B)
  /\ []((pc = "sb_wait" /\ tx_count = UART_TX_BUFFER_LEN) =>
          UDRIE0 \in UCSR0B)
  /\ []((pc = "rb_wait" /\ rx_count = 0) => RXCIE0 \in UCSR0B)
  /\ [][ /\ pc \in TxMutation => wire' = wire
         /\ pc \in RxMutation => arrived' = arrived ]_vars

\* uart_send_byte found the buffer full, waited until the handler had
\* written a byte, and is now between the two updates.
C29_Witness ==
  /\ call = "uart_send_byte" /\ pc = "sb_store"
  /\ pre.tx_count = UART_TX_BUFFER_LEN
  /\ Drained = 1
  /\ tx_count = UART_TX_BUFFER_LEN
  /\ UDRIE0 \notin UCSR0B

(* ------------------------------- C30 ---------------------------------- *)
\* C30: when uart_flush_rx returns, whatever receive events preempted it,
\* the RX buffer is consistent, rx_in = (rx_out + rx_count) mod
\* UART_RX_BUFFER_LEN, and a byte received during the flush is either
\* counted and the next one read, or not in the buffer at all: the unread
\* bytes are the most recently received ones.
C30_FlushRxConsistent ==
  Returned("uart_flush_rx") =>
    /\ rx_in = (rx_out + rx_count) % UART_RX_BUFFER_LEN
    /\ rx_count <= Arrivals
    /\ (rx_count <= UART_RX_BUFFER_LEN) =>
         RxUnread = SubSeq(arrived, Len(arrived) - rx_count + 1,
                           Len(arrived))

(* ------------------------------- C31 ---------------------------------- *)
\* C31: in uart_do_match, for an entry with progress p > 0 whose sequence
\* byte at position p differs from the received byte b, the progress becomes
\* 1 if b equals the first sequence byte and 0 otherwise; for an entry with
\* progress 0 and b different from its first byte, progress stays 0.  Stated
\* for the entries the loop body runs on for b (no entry of lower index
\* completes on b).
C31_MismatchRule ==
  [][ (Len(arrived') = Len(arrived) + 1) =>
        LET b == arrived'[Len(arrived')]
            h == hits'[Len(hits')]
        IN \A i \in 0..(UART_MATCH_MAX - 1) :
             (i < match_idx_max /\ (h.bit = NoHit \/ i <= h.bit)) =>
               LET p == match[i].count
               IN /\ (p > 0 /\ p < UART_MAX_SEQ_LEN /\ match[i].seq[p] # b)
                       => match'[i].count =
                            IF b = match[i].seq[0] THEN 1 ELSE 0
                  /\ (p = 0 /\ match[i].seq[0] # b)
                       => match'[i].count = 0
    ]_vars

(* ------------------------------- C32 ---------------------------------- *)
\* C32: each call of uart_do_match sets at most one bit of triggered_mask,
\* the bit of the lowest-index entry that completes on the byte (its
\* progress is one short of its length and the byte compares equal to the
\* sequence byte at its progress), and no bit when no entry completes; the
\* entries behind the one that completes are left as they were, progress
\* included.
C32_OneBitPerByte ==
  [][ (Len(arrived') = Len(arrived) + 1) =>
        LET b == arrived'[Len(arrived')]
            h == hits'[Len(hits')]
            Completes(k) ==
              /\ match[k].count < UART_MAX_SEQ_LEN
              /\ b = AsChar(match[k].seq[match[k].count])
              /\ match[k].count + 1 = match[k].len
        IN /\ triggered_mask \subseteq triggered_mask'
           /\ Cardinality(triggered_mask' \ triggered_mask) <= 1
           /\ (h.bit = NoHit) =>
                /\ triggered_mask' = triggered_mask
                /\ \A k \in 0..(UART_MATCH_MAX - 1) :
                     k < match_idx_max => ~Completes(k)
           /\ (h.bit # NoHit) =>
                /\ h.bit < match_idx_max
                /\ triggered_mask' = triggered_mask \cup {h.bit}
                /\ (match[h.bit].count + 1) % BitfieldMod = match[h.bit].len
                /\ (match[h.bit].count < UART_MAX_SEQ_LEN) => Completes(h.bit)
                /\ match'[h.bit].count = 0
                /\ \A k \in 0..(UART_MATCH_MAX - 1) :
                     /\ k < h.bit => ~Completes(k)
                     /\ k > h.bit => match'[k] = match[k]
    ]_vars

\* Two patterns were registered before the last byte was received; the byte
\* completed the first, and the second, which expects the same byte at its
\* progress, was not advanced.
C32_Witness ==
  /\ pc = "idle" /\ nregs = 2 /\ match_idx_max = 2 /\ gone = GoneNone
  /\ Len(hits) >= 2
  /\ hits[Len(hits)].n = 2
  /\ hits[Len(hits)].bit = 0
  /\ triggered_mask = {0}
  /\ match[1].count > 0
  /\ match[1].count < match[1].len
  /\ match[1].seq[match[1].count] = arrived[Len(arrived)]

(* ------------------------------- C33 ---------------------------------- *)
\* C33: the receive-complete handler shows every received byte to the
\* matcher exactly once, in arrival order and in the same handler run that
\* stores it, also when the RX buffer is full: the run that appends byte b
\* and increments rx_count has already advanced the first table entry when
\* b compares equal to the sequence byte at its progress and has set the
\* bit of the pattern b completes, so the bit is set in every state in
\* which b can be read; no other step runs the matcher.
C33_MatchBeforeStore ==
  /\ [](Len(hits) = Len(arrived))
  /\ [][ /\ (Len(arrived') = Len(arrived) + 1) =>
             LET b == arrived'[Len(arrived')]
                 h == hits'[Len(hits')]
                 p == match[0].count
             IN /\ SubSeq(hits', 1, Len(hits)) = hits
                /\ rx_count' = Inc8(rx_count)
                /\ rx_buffer'[rx_in] = b
                /\ h.n = match_idx_max
                /\ (h.bit # NoHit) => h.bit \in triggered_mask'
                /\ (match_idx_max > 0 /\ p < UART_MAX_SEQ_LEN
                      /\ b = AsChar(match[0].seq[p])) =>
                     IF p + 1 = match[0].len
                       THEN h.bit = 0 /\ match'[0].count = 0
                       ELSE match'[0].count = p + 1
         /\ (arrived' = arrived) =>
              /\ hits' = hits
              /\ triggered_mask' \subseteq triggered_mask
       ]_vars

\* The last byte arrived while the RX buffer was full and completed the
\* pattern at index 0, whose bit is set.
C33_Witness ==
  /\ pc = "idle"
  /\ rx_count > UART_RX_BUFFER_LEN
  /\ novf > 0
  /\ Len(hits) = Len(arrived)
  /\ hits[Len(hits)].bit = 0
  /\ 0 \in triggered_mask
  /\ match[0].len > 0
  /\ arrived[Len(arrived)] = match[0].seq[match[0].len - 1]

(* ------------------------------- C34 ---------------------------------- *)
\* C34: in every reachable state every table entry has length at most
\* UART_MAX_SEQ_LEN and progress at most its length, whatever sequence was
\* registered (the empty one and over-long ones included) and whatever
\* bytes were received.
C34_ProgressWithinLength ==
  \A i \in 0..(UART_MATCH_MAX - 1) :
    /\ match[i].len <= UART_MAX_SEQ_LEN
    /\ match[i].count <= match[i].len

(* ------------------------------- C35 ---------------------------------- *)
\* C35: when uart_register_match has succeeded and no byte was received
\* since the call, the progress of the new entry is 0, also in a slot that
\* an earlier uart_deregister_match freed; and a byte received since the
\* call that sets its bit is preceded, since the call, by the other bytes
\* of its sequence in order.
C35_RegisteredProgressZero ==
  (Returned("uart_register_match") /\ ret = 0) =>
    LET k == mpre.match_idx_max
        e == match[k]
        n == Len(arrived) - mpre.narr
    IN /\ (n = 0) => e.count = 0
       /\ \A j \in 1..Len(hits) :
            (j > mpre.narr /\ hits[j].bit = k) =>
              /\ j - mpre.narr >= e.len
              /\ \A q \in 1..e.len :
                   arrived[j - e.len + q] = e.seq[q - 1]

(* ------------------------------- C36 ---------------------------------- *)
\* C36: a deregistration leaves triggered_mask as it is while it compacts
\* the table, so a bit set for the pattern that completed stays at its
\* index; and uart_check_match, with no byte received during it, runs for
\* every set bit i below the entry count the callback of the entry that is
\* at index i at the call, with that entry's user data, and clears bit i.
C36_SweepUsesEntryAtIndex ==
  /\ []( (Returned("uart_check_match") /\ Len(arrived) = mpre.narr) =>
           \A i \in Due :
             /\ i \notin triggered_mask
             /\ \E k \in 1..Len(Swept) :
                  /\ Swept[k].idx = i
                  /\ Swept[k].str = Stored(mpre.match[i])
                  /\ Swept[k].event_handler = mpre.match[i].event_handler
                  /\ Swept[k].data = mpre.match[i].data )
  /\ [][ ( /\ call' = "uart_deregister_match"
           /\ pc \in {"idle", "dm_load", "dm_bits", "dm_seq", "dm_handler",
                       "dm_data", "dm_dec"}
           /\ arrived' = arrived ) =>
           triggered_mask' = triggered_mask ]_vars

\* Two patterns were registered, the only byte received completed the one
\* at index 0, that one was deregistered, and the sweep has run the
\* callback of the longer pattern that moved to index 0, which sent that
\* pattern's text, and cleared bit 0.
C36_Witness ==
  /\ Returned("uart_check_match")
  /\ nregs = 3
  /\ Len(arrived) = 1 /\ mpre.narr = 1
  /\ hits[1].bit = 0 /\ hits[1].n = 2
  /\ mpre.match_idx_max = 1
  /\ mpre.triggered_mask = {0}
  /\ mpre.match[0].len > 1
  /\ Len(invoked) = 1
  /\ invoked[1].idx = 0
  /\ invoked[1].str = Stored(mpre.match[0])
  /\ invoked[1].data = mpre.match[0].data
  /\ Len(enq) = MaxReply /\ enq[MaxReply] = mpre.match[0].data
  /\ triggered_mask = {}

(* ------------------------------- C37 ---------------------------------- *)
\* C37: no trigger is lost to preemption: when uart_check_match returns,
\* every pattern that a byte received during the call completed either has
\* had its callback run by this sweep or still has its bit set for the
\* next uart_check_match.
C37_NoTriggerLost ==
  Returned("uart_check_match") =>
    \A j \in (mpre.narr + 1)..Len(hits) :
      (hits[j].bit # NoHit) =>
        \/ hits[j].bit \in triggered_mask
        \/ \E k \in 1..Len(Swept) : Swept[k].idx = hits[j].bit

(* ------------------------------- C38 ---------------------------------- *)
\* C38: when uart_deregister_match, preempted anywhere in its compaction
\* loop by receive events, has removed an entry, every trigger bit that a
\* byte received during the call set stands at the index of a pattern
\* whose whole sequence had just been received when the bit was set, so
\* that the next uart_check_match reports that pattern; the only bit that
\* may be left at or above the entry count is that of the removed entry.
C38_CompactionPreempted ==
  (Returned("uart_deregister_match") /\ mloc.found = 1) =>
    \A j \in (mpre.narr + 1)..Len(hits) :
      (hits[j].bit # NoHit) =>
        IF hits[j].bit < match_idx_max
          THEN LET e == match[hits[j].bit]
               IN /\ j >= e.len
                  /\ Stored(e) = Window(j, e.len)
          ELSE hits[j].bit = mloc.idx

(* ------------------------------- C39 ---------------------------------- *)
\* Bytes the application offers beyond the capacity.
ExtraBytes == 1

\* The values of UART_TX_BUFFER_LEN the ring is built with: the smallest
\* ones, and those around the range of the `unsigned char` indices.
CapacitySamples == {1, 2, Uint8Mod - 1, Uint8Mod, Uint8Mod + 1}

\* UART_TX_BUFFER_LEN, the number of elements of uart.tx_buffer.
TxCapacity == Cardinality(DOMAIN tx_buffer)

\* TX_COUNT_SIZE_TYPE: uint8_t below 256 elements, uint16_t from there on.
TxCountMod(n) == IF n < Uint8Mod THEN Uint8Mod ELSE Uint16Mod

\* The k-th byte the application sends: a run of 256 equal bytes, then a
\* run of the next value.
RunByte(k) == (k \div Uint8Mod) % (MaxByte + 1)

\* The state after construction of a build with one of the capacities.
InitCap ==
  /\ rx_count = 0 /\ tx_count = 0
  /\ rx_in = 0 /\ rx_out = 0 /\ tx_in = 0 /\ tx_out = 0
  /\ rx_buffer = [i \in 0..(UART_RX_BUFFER_LEN - 1) |-> 0]
  /\ \E n \in CapacitySamples : tx_buffer = [i \in 0..(n - 1) |-> 0]
  /\ UCSR0B = {RXCIE0}
  /\ pc = "idle" /\ call = "none" /\ loc = LocInit /\ ret = 0
  /\ pre = PreNone
  /\ enq = <<>> /\ wire = <<>> /\ arrived = <<>> /\ got = <<>>
  /\ novf = 0 /\ nret = 0 /\ peeked = PeekNone
  /\ match_idx_max = 0
  /\ match = [i \in 0..(UART_MATCH_MAX - 1) |-> EntryZero]
  /\ triggered_mask = {}
  /\ mloc = MLocInit /\ mpre = MPreNone
  /\ hits = <<>> /\ invoked = <<>> /\ nregs = 0 /\ gone = GoneNone

\* void uart_send_byte(char c) in that build, from the end of its wait to
\* its return; the data-register-empty interrupt is disabled in between.
CapSendByte ==
  /\ tx_count # TxCapacity
  /\ Len(enq) < TxCapacity + ExtraBytes
  /\ tx_count' = (tx_count + 1) % TxCountMod(TxCapacity)
  /\ tx_buffer' = [tx_buffer EXCEPT ![tx_in] = RunByte(Len(enq))]
  /\ enq' = Append(enq, RunByte(Len(enq)))
  /\ tx_in' = AdvanceIndex(tx_in, TxCapacity)
  /\ UCSR0B' = UCSR0B \cup {UDRIE0}
  /\ UNCHANGED <<mvars, tx_out, rxvars, pc, call, loc, ret, pre, wire, nret,
                 rxhist>>

\* ISR(port_udre_vect, ISR_BLOCK) in that build.
CapUdre ==
  /\ UDRIE0 \in UCSR0B
  /\ IF tx_count > 0
       THEN LET n == (tx_count + TxCountMod(TxCapacity) - 1)
                       % TxCountMod(TxCapacity)
            IN /\ wire' = Append(wire, tx_buffer[tx_out])
               /\ tx_out' = AdvanceIndex(tx_out, TxCapacity)
               /\ tx_count' = n
               /\ UCSR0B' = IF n = 0 THEN UCSR0B \ {UDRIE0} ELSE UCSR0B
       ELSE UNCHANGED <<wire, tx_out, tx_count, UCSR0B>>
  /\ UNCHANGED <<mvars, tx_in, tx_buffer, rxvars, pc, call, loc, ret, pre, enq,
                 nret, rxhist>>

NextCap ==
  \/ CapSendByte
  \/ CapUdre

\* The transmit ring built with each of the capacities.
SpecCap == InitCap /\ [][NextCap]_vars

\* C39: for every capacity N the head and tail indices are the numbers of
\* bytes enqueued and dispatched modulo N (they go back to 0 exactly after
\* N - 1), tx_count is the number of bytes enqueued and not yet dispatched,
\* at most N, and the bytes dispatched are the bytes enqueued, in order;
\* also for N > 256.
C39_RingAnyCapacity ==
  /\ tx_in = Len(enq) % TxCapacity
  /\ tx_out = Len(wire) % TxCapacity
  /\ tx_count = Len(enq) - Len(wire)
  /\ tx_count <= TxCapacity
  /\ IsPrefix(wire, enq)

(* ------------------------------- C40 ---------------------------------- *)
\* C40: a successful uart_register_match stores its terminator at one of
\* the positions 0..UART_MAX_SEQ_LEN-1 of the new entry's sequence array,
\* whatever the length of the input sequence.
C40_TerminatorInsideArray ==
  (Returned("uart_register_match") /\ ret = 0) =>
    mloc.term < UART_MAX_SEQ_LEN

====
